---- MODULE Spec2Model ----
(***************************************************************************)
(* Model of the video uploader package of kangeugine/unnecessary_analysis: *)
(* the upload orchestrator (upload_video.py), the two platform uploaders   *)
(* with their tenacity retry decorator (youtube_uploader.py,               *)
(* instagram_uploader.py) and the configuration manager                    *)
(* (config_manager.py).                                                    *)
(***************************************************************************)
EXTENDS Integers, Sequences, FiniteSets, TLC

(***************************************************************************)
(* Bounds of the model.                                                    *)
(***************************************************************************)
\* longest platforms argument that is explored
MaxPlatforms == 2
\* progress reports (status, None) that next_chunk may deliver per attempt
MaxChunks == 1

(***************************************************************************)
(* Program constants.                                                      *)
(***************************************************************************)
\* tenacity: stop=stop_after_attempt(3), on both uploaders
MaxAttempts == 3
\* YouTubeUploader._execute_upload_with_progress: max_retries = 3
max_retries == 3

\* names a caller can put in the platforms argument; "tiktok" stands for any
\* name that upload_video does not know
PlatformNames == {"youtube", "instagram", "tiktok"}
\* the platforms upload_video has an upload coroutine for
Uploaders == {"youtube", "instagram"}

(***************************************************************************)
(* Text.  A message is a sequence of fragments; an f-string concatenates   *)
(* its fragments.                                                          *)
(***************************************************************************)
Contains(text, part) ==
    \E i \in 0..(Len(text) - Len(part)) :
        \A j \in 1..Len(part) : text[i + j] = part[j]

\* text `part` occurs in `text` and is directly followed by `rest`
ContainsFollowedBy(text, part, rest) == Contains(text, part \o rest)

(***************************************************************************)
(* Exceptions and their str().                                             *)
(***************************************************************************)
Exc(cls, msg) == [cls |-> cls, msg |-> msg, last |-> "-"]

\* tenacity raises RetryError(last_attempt) when the stop condition is met
\* and reraise is not set
RetryError(e) == [cls |-> "RetryError", msg |-> <<>>, last |-> e.cls]

\* str(RetryError) is "RetryError[<Future at 0x.. state=finished raised Cls>]":
\* it names the class of the last exception, not its message
Str(e) ==
    IF e.cls = "RetryError"
    THEN <<"RetryError[<Future state=finished raised ", e.last, ">]">>
    ELSE e.msg

NoExc == [cls |-> "-", msg |-> <<>>, last |-> "-"]

(***************************************************************************)
(* UploadResult and the entries asyncio.gather(return_exceptions=True)     *)
(* delivers: an UploadResult, or the exception that escaped the coroutine. *)
(***************************************************************************)
UploadResult(platform, success, error_message) ==
    [isExc |-> FALSE, platform |-> platform, success |-> success,
     error_message |-> error_message, exc |-> NoExc]

Raised(e) ==
    [isExc |-> TRUE, platform |-> "-", success |-> FALSE,
     error_message |-> <<>>, exc |-> e]

NoEntry == [isExc |-> FALSE, platform |-> "-", success |-> FALSE,
            error_message |-> <<>>, exc |-> NoExc]

(***************************************************************************)
(* ValidationResult values VideoValidator.validate_video can return.       *)
(***************************************************************************)
ValidationResult(is_valid, error_message) ==
    [is_valid |-> is_valid, error_message |-> error_message]

ValidationResults ==
    { ValidationResult(TRUE, <<>>),
      ValidationResult(FALSE, <<"Video file not found: ", "video_path">>),
      ValidationResult(FALSE, <<"Video file is empty">>),
      ValidationResult(FALSE, <<"Validation error: ", "ffprobe failed">>) }

NoValidation == ValidationResult(FALSE, <<"-">>)

VARIABLES
    pc,                \* position of main / upload_video
    caller,            \* "main" (command line) or "api" (upload_video called)
    platforms,         \* the platforms argument
    is_bytes,          \* video_source is bytes
    temp_exists,       \* the temporary file of upload_video exists
    temp_file_path,    \* temp_file_path is set (not None)
    validation_result, \* what validate_video returned
    upload_tasks,      \* upload_tasks, as the platform of each coroutine
    tpc,               \* position of each upload coroutine
    attempt_number,    \* tenacity's attempt number of each uploader call
    retry_count,       \* retry_count of _execute_upload_with_progress
    chunks,            \* progress reports received in the current attempt
    http_status,       \* status of the HttpError next_chunk raised last, or 0
    youtube,           \* YouTubeUploader.youtube is set
    authenticated,     \* InstagramUploader.authenticated
    gathered,          \* what gather collected for each coroutine
    finished,          \* the coroutines in the order in which they finished
    last_failure,      \* exception the last attempt raised, NoExc if none
    failed_requests,   \* upload requests that failed in the current attempt
    published,         \* upload requests that succeeded
    upload_results,    \* list returned by upload_video
    raised,            \* exception that escaped upload_video
    stdout,            \* records printed by main
    exit_code,         \* exit status of main, -1 while running
    cpc,               \* ConfigManager: "new", "constructed" or "failed"
    environ,           \* os.environ after load_dotenv, per mapped variable
    file_config,       \* what the configuration file holds, NoFile if none
    config_data,       \* ConfigManager.config_data
    sets,              \* calls of ConfigManager.set so far
    set_key_path,      \* key_path of the last call of set
    set_value,         \* value of the last call of set
    set_raised,        \* the last call of set raised TypeError
    call,              \* the function called on its own, "none" before
    args,              \* the arguments of that call
    returned           \* what the call returned

uvars == <<pc, caller, platforms, is_bytes, temp_exists, temp_file_path,
           validation_result,
           upload_tasks, tpc, attempt_number, retry_count, chunks,
           http_status, youtube,
           authenticated, gathered, finished, last_failure, failed_requests,
           published, upload_results, raised, stdout, exit_code>>

cvars == <<cpc, environ, file_config, config_data, sets, set_key_path,
           set_value, set_raised>>

pvars == <<call, args, returned>>

vars == <<uvars, cvars, pvars>>

argvars == <<caller, platforms, is_bytes>>
outvars == <<stdout, exit_code>>
taskvars == <<tpc, attempt_number, retry_count, chunks, http_status, youtube,
              authenticated, gathered, finished, last_failure,
              failed_requests, published>>

RECURSIVE SeqsUpTo(_, _)
SeqsUpTo(S, n) ==
    IF n = 0 THEN { <<>> }
    ELSE LET shorter == SeqsUpTo(S, n - 1)
         IN  shorter \cup { Append(s, x) : s \in shorter, x \in S }

InSeq(x, s) == \E i \in 1..Len(s) : s[i] = x

\* main passes the --video-source string and the split --platforms string,
\* which has at least one element; a direct caller of upload_video ("api")
\* passes bytes and any list
UInit ==
    /\ pc = "start"
    /\ caller \in {"main", "api"}
    /\ platforms \in SeqsUpTo(PlatformNames, MaxPlatforms)
    /\ caller = "main" => Len(platforms) >= 1
    /\ is_bytes = (caller = "api")
    /\ temp_exists = FALSE
    /\ temp_file_path = FALSE
    /\ validation_result = NoValidation
    /\ upload_tasks = <<>>
    /\ tpc = [p \in Uploaders |-> "none"]
    /\ attempt_number = [p \in Uploaders |-> 0]
    /\ retry_count = 0
    /\ chunks = 0
    /\ http_status = 0
    /\ youtube = FALSE
    /\ authenticated = FALSE
    /\ gathered = [p \in Uploaders |-> NoEntry]
    /\ finished = <<>>
    /\ last_failure = [p \in Uploaders |-> NoExc]
    /\ failed_requests = [p \in Uploaders |-> 0]
    /\ published = [p \in Uploaders |-> 0]
    /\ upload_results = <<>>
    /\ raised = NoExc
    /\ stdout = <<>>
    /\ exit_code = -1

(***************************************************************************)
(* ConfigManager (config_manager.py).                                      *)
(*                                                                         *)
(* A string is a sequence of fragments.  Strings that come from the        *)
(* environment are sequences of single characters, so that the conversions *)
(* read them character by character; a long literal of the defaults is one *)
(* opaque fragment.  A configuration value is a record with a type tag t:  *)
(* "str" (s), "int" (n), "bool" (n is 1 or 0), "float" (n * 10^x, or s     *)
(* "inf"/"nan"), "list" (l), "dict" (d, a function from keys to values)    *)
(* or "none".                                                              *)
(***************************************************************************)
EmptyDict == [k \in {} |-> 0]

VStr(s)      == [t |-> "str",   s |-> s,    n |-> 0, x |-> 0, l |-> <<>>, d |-> EmptyDict]
VInt(n)      == [t |-> "int",   s |-> <<>>, n |-> n, x |-> 0, l |-> <<>>, d |-> EmptyDict]
VBool(b)     == [t |-> "bool",  s |-> <<>>, n |-> IF b THEN 1 ELSE 0, x |-> 0,
                 l |-> <<>>, d |-> EmptyDict]
VFloat(n, x) == [t |-> "float", s |-> <<>>, n |-> n, x |-> x, l |-> <<>>, d |-> EmptyDict]
VFloatSpecial(name) ==
                [t |-> "float", s |-> <<name>>, n |-> 0, x |-> 0, l |-> <<>>, d |-> EmptyDict]
VList(l)     == [t |-> "list",  s |-> <<>>, n |-> 0, x |-> 0, l |-> l,    d |-> EmptyDict]
VDict(d)     == [t |-> "dict",  s |-> <<>>, n |-> 0, x |-> 0, l |-> <<>>, d |-> d]
VNone        == [t |-> "none",  s |-> <<>>, n |-> 0, x |-> 0, l |-> <<>>, d |-> EmptyDict]

\* data[key] = value on a dict
Put(data, key, value) ==
    [k \in DOMAIN data \cup {key} |-> IF k = key THEN value ELSE data[k]]

(***************************************************************************)
(* Characters, str.lower(), str.strip(), int() and float().                *)
(***************************************************************************)
DigitChars == <<"0", "1", "2", "3", "4", "5", "6", "7", "8", "9">>
UpperChars == <<"A", "B", "C", "D", "E", "F", "G", "H", "I", "J", "K", "L", "M",
                "N", "O", "P", "Q", "R", "S", "T", "U", "V", "W", "X", "Y", "Z">>
LowerChars == <<"a", "b", "c", "d", "e", "f", "g", "h", "i", "j", "k", "l", "m",
                "n", "o", "p", "q", "r", "s", "t", "u", "v", "w", "x", "y", "z">>

IsDigit(c) == \E i \in 1..Len(DigitChars) : DigitChars[i] = c
DigitValue(c) == (CHOOSE i \in 1..Len(DigitChars) : DigitChars[i] = c) - 1
IsSpace(c) == c \in {" ", "\t", "\n"}

LowerChar(c) ==
    IF \E i \in 1..Len(UpperChars) : UpperChars[i] = c
    THEN LowerChars[CHOOSE i \in 1..Len(UpperChars) : UpperChars[i] = c]
    ELSE c

\* value.lower()
Lower(s) == [i \in 1..Len(s) |-> LowerChar(s[i])]

RECURSIVE StripLeft(_)
StripLeft(s) ==
    IF s # <<>> /\ IsSpace(s[1]) THEN StripLeft(Tail(s)) ELSE s

RECURSIVE StripRight(_)
StripRight(s) ==
    IF s # <<>> /\ IsSpace(s[Len(s)])
    THEN StripRight(SubSeq(s, 1, Len(s) - 1)) ELSE s

Strip(s) == StripRight(StripLeft(s))

HasSign(s) == s # <<>> /\ s[1] \in {"+", "-"}
Unsigned(s) == IF HasSign(s) THEN Tail(s) ELSE s
Sign(s) == IF s # <<>> /\ s[1] = "-" THEN -1 ELSE 1

\* digits, with single underscores between digits
IsDigitPart(s) ==
    /\ s # <<>>
    /\ \A i \in 1..Len(s) :
          \/ IsDigit(s[i])
          \/ /\ s[i] = "_"
             /\ 1 < i /\ i < Len(s)
             /\ IsDigit(s[i - 1]) /\ IsDigit(s[i + 1])

RECURSIVE DigitsValue(_, _)
DigitsValue(s, acc) ==
    IF s = <<>> THEN acc
    ELSE IF s[1] = "_" THEN DigitsValue(Tail(s), acc)
    ELSE DigitsValue(Tail(s), 10 * acc + DigitValue(s[1]))

RECURSIVE CountDigits(_)
CountDigits(s) ==
    IF s = <<>> THEN 0
    ELSE (IF s[1] = "_" THEN 0 ELSE 1) + CountDigits(Tail(s))

\* int(value) does not raise ValueError
ParsesAsInt(s) == IsDigitPart(Unsigned(Strip(s)))
IntOf(s) == Sign(Strip(s)) * DigitsValue(Unsigned(Strip(s)), 0)

IndexOf(s, chars) ==
    IF \E i \in 1..Len(s) : s[i] \in chars
    THEN CHOOSE i \in 1..Len(s) :
            s[i] \in chars /\ \A j \in 1..(i - 1) : s[j] \notin chars
    ELSE 0

\* the text before / after the first exponent marker, or the first point
Mantissa(u) == IF IndexOf(u, {"e", "E"}) = 0 THEN u
               ELSE SubSeq(u, 1, IndexOf(u, {"e", "E"}) - 1)
Exponent(u) == SubSeq(u, IndexOf(u, {"e", "E"}) + 1, Len(u))
IntPart(m)  == IF IndexOf(m, {"."}) = 0 THEN m
               ELSE SubSeq(m, 1, IndexOf(m, {"."}) - 1)
FracPart(m) == IF IndexOf(m, {"."}) = 0 THEN <<>>
               ELSE SubSeq(m, IndexOf(m, {"."}) + 1, Len(m))

IsDecimal(u) ==
    /\ IntPart(Mantissa(u)) = <<>> \/ IsDigitPart(IntPart(Mantissa(u)))
    /\ FracPart(Mantissa(u)) = <<>> \/ IsDigitPart(FracPart(Mantissa(u)))
    /\ IntPart(Mantissa(u)) # <<>> \/ FracPart(Mantissa(u)) # <<>>
    /\ IndexOf(u, {"e", "E"}) # 0 => IsDigitPart(Unsigned(Exponent(u)))

IsSpecialFloat(u) ==
    Lower(u) \in { <<"i", "n", "f">>, <<"n", "a", "n">>,
                   <<"i", "n", "f", "i", "n", "i", "t", "y">> }

\* float(value) does not raise ValueError
ParsesAsFloat(s) ==
    LET u == Unsigned(Strip(s)) IN IsDecimal(u) \/ IsSpecialFloat(u)

RECURSIVE Normalized(_, _)
Normalized(n, x) ==
    IF n = 0 THEN VFloat(0, 0)
    ELSE IF n % 10 = 0 THEN Normalized(n \div 10, x + 1)
    ELSE VFloat(n, x)

FloatOf(s) ==
    LET u == Unsigned(Strip(s))
        m == Mantissa(u)
        e == IF IndexOf(u, {"e", "E"}) = 0 THEN 0
             ELSE Sign(Exponent(u)) * DigitsValue(Unsigned(Exponent(u)), 0)
    IN  IF IsSpecialFloat(u)
        THEN VFloatSpecial(IF Lower(u) = <<"n", "a", "n">> THEN "nan"
                           ELSE IF Sign(Strip(s)) = 1 THEN "inf" ELSE "-inf")
        ELSE Normalized(Sign(Strip(s)) * DigitsValue(IntPart(m) \o FracPart(m), 0),
                        e - CountDigits(FracPart(m)))

ConvertEnvValueFloatFirst(value) ==
    IF Lower(value) \in { <<"t", "r", "u", "e">>, <<"f", "a", "l", "s", "e">> }
    THEN VBool(Lower(value) = <<"t", "r", "u", "e">>)
    ELSE IF ParsesAsFloat(value) THEN FloatOf(value)
    ELSE IF ParsesAsInt(value) THEN VInt(IntOf(value))
    ELSE VStr(value)

\* _convert_env_value (141-160)
ConvertEnvValue(value) ==
    IF Lower(value) \in { <<"t", "r", "u", "e">>, <<"f", "a", "l", "s", "e">> }
    THEN VBool(Lower(value) = <<"t", "r", "u", "e">>)
    ELSE IF ParsesAsInt(value) THEN VInt(IntOf(value))
    ELSE IF ParsesAsFloat(value) THEN FloatOf(value)
    ELSE VStr(value)

(***************************************************************************)
(* Dot notation: key_path.split('.'), get, _set_nested_value, _deep_merge. *)
(* The fragments of a key path are whole keys and "." separators.          *)
(***************************************************************************)
RECURSIVE Split(_)
Split(key_path) ==
    LET dot == IndexOf(key_path, {"."})
        KeyOf(segment) == IF segment = <<>> THEN "" ELSE segment[1]
    IN  IF dot = 0 THEN << KeyOf(key_path) >>
        ELSE << KeyOf(SubSeq(key_path, 1, dot - 1)) >>
             \o Split(SubSeq(key_path, dot + 1, Len(key_path)))

\* get (182-201) on the dict `data`; indexing a missing key (KeyError) or a
\* value that is not a dict (TypeError) returns the default
RECURSIVE GetKeys(_, _, _)
GetKeys(current, keys, default) ==
    IF keys = <<>> THEN current
    ELSE IF current.t # "dict" THEN default
    ELSE IF keys[1] \notin DOMAIN current.d THEN default
    ELSE GetKeys(current.d[keys[1]], Tail(keys), default)

Get(data, key_path, default) == GetKeys(VDict(data), Split(key_path), default)

\* current[key] (198): [exc, value]
Index(current, key) ==
    IF current.t # "dict" THEN [exc |-> "TypeError", value |-> VNone]
    ELSE IF key \notin DOMAIN current.d THEN [exc |-> "KeyError", value |-> VNone]
    ELSE [exc |-> "", value |-> current.d[key]]

\* the loop of 197-198: [exc, value]
RECURSIVE Walk(_, _)
Walk(current, keys) ==
    IF keys = <<>> THEN [exc |-> "", value |-> current]
    ELSE LET step == Index(current, keys[1])
         IN  IF step.exc # "" THEN step ELSE Walk(step.value, Tail(keys))

GetOutcomeKeyErrorOnly(data, key_path, default) ==
    LET walked == Walk(VDict(data), Split(key_path))
    IN  IF walked.exc \in {"KeyError"}
        THEN [raised |-> FALSE, value |-> default]
        ELSE [raised |-> walked.exc # "", value |-> walked.value]

\* get (182-201) with its handler (200-201): [raised, value]
GetOutcome(data, key_path, default) ==
    LET walked == Walk(VDict(data), Split(key_path))
    IN  IF walked.exc \in {"KeyError", "TypeError"}
        THEN [raised |-> FALSE, value |-> default]
        ELSE [raised |-> walked.exc # "", value |-> walked.value]

\* get's exception handler is not needed: the path leads to a value
Present(data, key_path) ==
    LET Missing == [t |-> "missing", s |-> <<>>, n |-> 0, x |-> 0, l |-> <<>>,
                    d |-> EmptyDict]
    IN  GetKeys(VDict(data), Split(key_path), Missing) # Missing

\* _set_nested_value (170-180) on the dict `data`: [raised, data].  Indexing
\* or assigning into a value that is not a dict raises TypeError; nothing
\* has been changed by then
RECURSIVE SetNestedKeys(_, _, _)
SetNestedKeys(data, keys, value) ==
    IF Len(keys) = 1
    THEN [raised |-> FALSE, data |-> Put(data, keys[1], value)]
    ELSE LET created == IF keys[1] \notin DOMAIN data
                        THEN Put(data, keys[1], VDict(EmptyDict))
                        ELSE data
             current == created[keys[1]]
         IN  IF current.t # "dict"
             THEN [raised |-> TRUE, data |-> data]
             ELSE LET below == SetNestedKeys(current.d, Tail(keys), value)
                  IN  [raised |-> below.raised,
                       data |-> IF below.raised THEN data
                                ELSE Put(created, keys[1], VDict(below.data))]

SetNestedValue(data, key_path, value) ==
    SetNestedKeys(data, Split(key_path), value)

DeepMergeShallow(base, update) ==
    [key \in DOMAIN base \cup DOMAIN update |->
        IF key \notin DOMAIN update THEN base[key] ELSE update[key]]

\* _deep_merge (162-168)
RECURSIVE DeepMerge(_, _)
DeepMerge(base, update) ==
    [key \in DOMAIN base \cup DOMAIN update |->
        IF key \notin DOMAIN update THEN base[key]
        ELSE IF /\ key \in DOMAIN base
                /\ base[key].t = "dict"
                /\ update[key].t = "dict"
             THEN VDict(DeepMerge(base[key].d, update[key].d))
             ELSE update[key]]

(***************************************************************************)
(* The configuration sources: defaults (27-68), file (70-101) and          *)
(* environment (103-139).                                                  *)
(***************************************************************************)
Dict1(k1, v1) == VDict(Put(EmptyDict, k1, v1))
Dict2(k1, v1, k2, v2) == VDict(Put(Put(EmptyDict, k1, v1), k2, v2))

\* _load_defaults (27-68); 9/16 = 0.5625
Defaults ==
    [ youtube |-> VDict(
        [ credentials_path |-> VStr(<<"data/youtube_credentials.json">>),
          token_path       |-> VStr(<<"data/youtube_token.json">>),
          category_id      |-> VStr(<<"2", "2">>),
          default_privacy  |-> VStr(<<"p", "u", "b", "l", "i", "c">>),
          default_tags     |-> VList(<< VStr(<<"Shorts">>), VStr(<<"Video">>),
                                        VStr(<<"Content">>) >>),
          chunk_size       |-> VInt(4 * 1024 * 1024),
          max_retries      |-> VInt(3) ]),
      instagram |-> VDict(
        [ session_path          |-> VStr(<<"data/instagram_session.json">>),
          max_retries           |-> VInt(3),
          delay_between_uploads |-> VInt(30),
          default_hashtags      |-> VList(<< VStr(<<"#Reels">>),
                                             VStr(<<"#Instagram">>),
                                             VStr(<<"#Video">>) >>) ]),
      video |-> VDict(
        [ max_file_size          |-> VInt(500 * 1024 * 1024),
          supported_formats      |-> VList(<< VStr(<<".mp4">>), VStr(<<".mov">>),
                                              VStr(<<".avi">>) >>),
          max_duration_youtube   |-> VInt(60),
          max_duration_instagram |-> VInt(90),
          min_duration           |-> VFloat(1, 0),
          preferred_aspect_ratio |-> VFloat(5625, -4),
          min_resolution         |-> VList(<< VInt(720), VInt(1280) >>),
          max_resolution         |-> VList(<< VInt(1080), VInt(1920) >>) ]),
      upload |-> VDict(
        [ concurrent_uploads   |-> VBool(TRUE),
          retry_delays         |-> VList(<< VInt(1), VInt(2), VInt(4), VInt(8) >>),
          timeout              |-> VInt(300),
          chunk_upload_timeout |-> VInt(60) ]),
      logging |-> VDict(
        [ level         |-> VStr(<<"I", "N", "F", "O">>),
          file_path     |-> VStr(<<"uploads.log">>),
          max_file_size |-> VStr(<<"10 MB">>),
          backup_count  |-> VInt(5),
          format        |-> VStr(<<"{time} | {level} | {name} - {message}">>) ]) ]

\* env_mappings (108-132), in the order the loop of 134 visits them
EnvMappings ==
    <<
       [env_var |-> "YOUTUBE_CREDENTIALS_PATH", config_key |-> <<"youtube", ".", "credentials_path">>],
       [env_var |-> "YOUTUBE_TOKEN_PATH",       config_key |-> <<"youtube", ".", "token_path">>],
       [env_var |-> "YOUTUBE_CATEGORY_ID",      config_key |-> <<"youtube", ".", "category_id">>],
       [env_var |-> "YOUTUBE_DEFAULT_PRIVACY",  config_key |-> <<"youtube", ".", "default_privacy">>],
       [env_var |-> "INSTAGRAM_USERNAME",       config_key |-> <<"instagram", ".", "username">>],
       [env_var |-> "INSTAGRAM_PASSWORD",       config_key |-> <<"instagram", ".", "password">>],
       [env_var |-> "INSTAGRAM_SESSION_PATH",   config_key |-> <<"instagram", ".", "session_path">>],
       [env_var |-> "MAX_FILE_SIZE",            config_key |-> <<"video", ".", "max_file_size">>],
       [env_var |-> "MAX_DURATION_YOUTUBE",     config_key |-> <<"video", ".", "max_duration_youtube">>],
       [env_var |-> "MAX_DURATION_INSTAGRAM",   config_key |-> <<"video", ".", "max_duration_instagram">>],
       [env_var |-> "UPLOAD_TIMEOUT",           config_key |-> <<"upload", ".", "timeout">>],
       [env_var |-> "MAX_RETRIES",              config_key |-> <<"youtube", ".", "max_retries">>],
       [env_var |-> "LOG_LEVEL",                config_key |-> <<"logging", ".", "level">>],
       [env_var |-> "LOG_FILE",                 config_key |-> <<"logging", ".", "file_path">>]
    >>

EnvVars == { EnvMappings[i].env_var : i \in 1..Len(EnvMappings) }

\* os.getenv returned None
Unset == <<"None">>

\* there is no configuration file (88)
NoFile == [t |-> "nofile", s |-> <<>>, n |-> 0, x |-> 0, l |-> <<>>, d |-> EmptyDict]

\* json.load / yaml.safe_load raised
Unparsable == [t |-> "unparsable", s |-> <<>>, n |-> 0, x |-> 0, l |-> <<>>,
               d |-> EmptyDict]

\* _load_config_file (70-101): a document that is not a mapping has no
\* items(), and the handler of 100 leaves the configuration as it was
LoadConfigFile(data, file) ==
    IF file.t = "dict" THEN DeepMerge(data, file.d) ELSE data

\* _load_environment (103-139) from the i-th mapping on: [raised, data]
RECURSIVE LoadEnvironmentFrom(_, _, _)
LoadEnvironmentFrom(data, env, i) ==
    IF i > Len(EnvMappings) THEN [raised |-> FALSE, data |-> data]
    ELSE LET value == env[EnvMappings[i].env_var]
         IN  IF value = Unset THEN LoadEnvironmentFrom(data, env, i + 1)
             ELSE LET loaded == SetNestedValue(data, EnvMappings[i].config_key,
                                               ConvertEnvValue(value))
                  IN  IF loaded.raised THEN loaded
                      ELSE LoadEnvironmentFrom(loaded.data, env, i + 1)

LoadEnvironment(data, env) == LoadEnvironmentFrom(data, env, 1)

(***************************************************************************)
(* __str__ (341-350).  json.dumps(..., indent=2) is rendered as fragments: *)
(* brackets, separators, line breaks with their indentation, quotes and    *)
(* the text of each scalar.  The keys of a dictionary are rendered in one  *)
(* fixed order.                                                            *)
(***************************************************************************)
Indent(depth) == <<"\n">> \o [i \in 1..depth |-> "  "]

RECURSIVE Dumps(_, _)
RECURSIVE DumpsItems(_, _, _)
RECURSIVE DumpsElements(_, _)

\* the items of dictionary d for the keys in `keys`, one per line
DumpsItems(d, keys, depth) ==
    IF keys = {} THEN <<>>
    ELSE LET key == CHOOSE k \in keys : TRUE
         IN  Indent(depth) \o <<"\"", key, "\"", ": ">>
             \o Dumps(d[key], depth)
             \o (IF keys = {key} THEN <<>> ELSE <<",">>)
             \o DumpsItems(d, keys \ {key}, depth)

\* the elements of a list, one per line
DumpsElements(l, depth) ==
    IF l = <<>> THEN <<>>
    ELSE Indent(depth) \o Dumps(l[1], depth)
         \o (IF Len(l) = 1 THEN <<>> ELSE <<",">>)
         \o DumpsElements(Tail(l), depth)

Dumps(value, depth) ==
    CASE value.t = "str"   -> <<"\"">> \o value.s \o <<"\"">>
      [] value.t = "int"   -> << ToString(value.n) >>
      [] value.t = "bool"  -> << IF value.n = 1 THEN "true" ELSE "false" >>
      [] value.t = "float" -> IF value.s # <<>> THEN value.s
                              ELSE << ToString(value.n), "e", ToString(value.x) >>
      [] value.t = "none"  -> << "null" >>
      [] value.t = "list"  -> IF value.l = <<>> THEN << "[]" >>
                              ELSE <<"[">> \o DumpsElements(value.l, depth + 1)
                                   \o Indent(depth) \o <<"]">>
      [] value.t = "dict"  -> IF DOMAIN value.d = {} THEN << "{}" >>
                              ELSE <<"{">>
                                   \o DumpsItems(value.d, DOMAIN value.d, depth + 1)
                                   \o Indent(depth) \o <<"}">>

\* json.loads(json.dumps(value)): a copy built from what was written
RECURSIVE JsonCopy(_)
JsonCopy(value) ==
    CASE value.t = "dict" -> VDict([k \in DOMAIN value.d |-> JsonCopy(value.d[k])])
      [] value.t = "list" -> VList([i \in 1..Len(value.l) |-> JsonCopy(value.l[i])])
      [] OTHER -> value

Masked == VStr(<<"***masked***">>)

\* 'password' in safe_config['instagram'] (346): [exc, found]
HasPassword(instagram) ==
    CASE instagram.t = "dict" ->
            [exc |-> "", found |-> "password" \in DOMAIN instagram.d]
      [] instagram.t = "str" ->
            [exc |-> "", found |-> Contains(instagram.s, <<"password">>)]
      [] instagram.t = "list" ->
            [exc |-> "",
             found |-> \E i \in 1..Len(instagram.l) :
                          instagram.l[i] = VStr(<<"password">>)]
      [] OTHER -> [exc |-> "TypeError", found |-> FALSE]

StrOutcomeUnmasked(data) ==
    [raised |-> FALSE, text |-> Dumps(JsonCopy(VDict(data)), 0)]

\* __str__ (341-350): [raised, text]
StrOutcome(data) ==
    LET safe_config == JsonCopy(VDict(data)).d
    IN  IF "instagram" \notin DOMAIN safe_config
        THEN [raised |-> FALSE, text |-> Dumps(VDict(safe_config), 0)]
        ELSE LET instagram == safe_config["instagram"]
                 has == HasPassword(instagram)
             IN  IF has.exc # "" THEN [raised |-> TRUE, text |-> <<>>]
                 ELSE IF ~has.found
                 THEN [raised |-> FALSE, text |-> Dumps(VDict(safe_config), 0)]
                 ELSE IF instagram.t # "dict"
                 THEN [raised |-> TRUE, text |-> <<>>]
                 ELSE [raised |-> FALSE,
                       text |-> Dumps(VDict(Put(safe_config, "instagram",
                                    VDict(Put(instagram.d, "password", Masked)))),
                                    0)]

(***************************************************************************)
(* The environments, files and calls of set that are explored.             *)
(***************************************************************************)
MaxSets == 1

EnvTexts == { <<"3", "5">>, <<"T", "r", "u", "e">>,
              <<"t", "e", "s", "t", "_", "u", "s", "e", "r">> }

ExploredEnvVars == { "YOUTUBE_CATEGORY_ID", "INSTAGRAM_USERNAME",
                     "MAX_FILE_SIZE", "LOG_LEVEL" }

Environments ==
    { [v \in EnvVars |-> IF v \in ExploredEnvVars THEN explored[v] ELSE Unset] :
        explored \in [ExploredEnvVars -> EnvTexts \cup {Unset}] }

NoEnvironment == [v \in EnvVars |-> Unset]

FileConfigs ==
    { NoFile,
      Unparsable,
      VList(<<>>),
      VDict([ youtube |-> Dict2("category_id", VStr(<<"2", "5">>),
                                "default_privacy",
                                VStr(<<"u", "n", "l", "i", "s", "t", "e", "d">>)),
              custom_setting |-> VStr(<<"test_value">>) ]),
      VDict([ instagram |-> Dict1("username", VStr(<<"file_user">>)),
              logging   |-> Dict1("level", VStr(<<"D", "E", "B", "U", "G">>)) ]),
      VDict([ logging |-> VStr(<<"quiet">>),
              video   |-> Dict1("max_file_size", VInt(1000)) ]) }

SetKeyPaths ==
    { <<"youtube", ".", "category_id">>,
      <<"new_section", ".", "new_key">>,
      <<"video", ".", "limits", ".", "max">>,
      <<"youtube">>,
      <<"logging", ".", "level", ".", "sub">>,
      <<"youtube", ".", "default_tags", ".", "Shorts">> }

SetValues == { VStr(<<"3", "0">>), VInt(7) }

NoKeyPath == <<>>

\* the ConfigManager that VideoUploader.__init__ (upload_video.py 41) built,
\* here without a file and without overrides
CIdle ==
    /\ cpc = "constructed"
    /\ environ = NoEnvironment
    /\ file_config = NoFile
    /\ config_data = Defaults
    /\ sets = 0
    /\ set_key_path = NoKeyPath
    /\ set_value = VNone
    /\ set_raised = FALSE

\* before ConfigManager(config_path)
CInit ==
    /\ cpc = "new"
    /\ environ \in Environments
    /\ file_config \in FileConfigs
    /\ config_data = EmptyDict
    /\ sets = 0
    /\ set_key_path = NoKeyPath
    /\ set_value = VNone
    /\ set_raised = FALSE

\* __init__ (18-25); a TypeError of _set_nested_value escapes it
Construct ==
    /\ cpc = "new"
    /\ LET loaded == LoadEnvironment(LoadConfigFile(Defaults, file_config),
                                     environ)
       IN  /\ cpc' = IF loaded.raised THEN "failed" ELSE "constructed"
           /\ config_data' = IF loaded.raised THEN config_data ELSE loaded.data
    /\ UNCHANGED <<environ, file_config, sets, set_key_path, set_value,
                   set_raised>>

\* set (203-205)
Set ==
    /\ cpc = "constructed"
    /\ sets < MaxSets
    /\ \E key_path \in SetKeyPaths, value \in SetValues :
          LET changed == SetNestedValue(config_data, key_path, value)
          IN  /\ config_data' = changed.data
              /\ set_raised' = changed.raised
              /\ set_key_path' = key_path
              /\ set_value' = value
    /\ sets' = sets + 1
    /\ UNCHANGED <<cpc, environ, file_config>>

(***************************************************************************)
(* VideoValidator (video_validator.py).  Durations and aspect ratios are   *)
(* fractions n/d with d > 0, compared exactly; in the range of the         *)
(* thresholds the floating-point comparisons of the code give the same     *)
(* answers.                                                                *)
(***************************************************************************)
Rat(n, d) == [n |-> n, d |-> d]

Lt(a, b) == a.n * b.d < b.n * a.d
Le(a, b) == a.n * b.d <= b.n * a.d
Gt(a, b) == Lt(b, a)

Abs(k) == IF k < 0 THEN -k ELSE k

\* abs(a - b)
AbsDiff(a, b) == Rat(Abs(a.n * b.d - b.n * a.d), a.d * b.d)

\* the class attributes (32-40)
YOUTUBE_SHORTS_MAX_DURATION == 60
INSTAGRAM_REELS_MAX_DURATION == 90
MAX_FILE_SIZE == 500 * 1024 * 1024
MIN_RESOLUTION == <<720, 1280>>
MAX_RESOLUTION == <<1080, 1920>>
PREFERRED_ASPECT_RATIO == Rat(9, 16)
SUPPORTED_FORMATS == << <<".", "m", "p", "4">>, <<".", "m", "o", "v">>,
                        <<".", "a", "v", "i">> >>
MIN_DURATION == 1

\* errors.append(...) when the condition holds
AppendIf(errors, condition, message) ==
    IF condition THEN Append(errors, message) ELSE errors

ValidateMetadataAtOrBelowMinimum(metadata) ==
    LET duration == metadata.duration
        width == metadata.width
        height == metadata.height
        aspect_ratio == metadata.aspect_ratio
        sized == width > 0 /\ height > 0
    IN  AppendIf(AppendIf(AppendIf(AppendIf(AppendIf(AppendIf(<<>>,
          Le(duration, Rat(MIN_DURATION, 1)),
              <<"Video too short: ", duration>>),
          Gt(duration, Rat(INSTAGRAM_REELS_MAX_DURATION, 1)),
              <<"Video too long: ", duration>>),
          sized /\ (width < MIN_RESOLUTION[1] \/ height < MIN_RESOLUTION[2]),
              <<"Resolution too low: ", width, "x", height>>),
          sized /\ (width > MAX_RESOLUTION[1] \/ height > MAX_RESOLUTION[2]),
              <<"Resolution too high: ", width, "x", height>>),
          sized /\ Gt(aspect_ratio, Rat(0, 1)) /\ Gt(aspect_ratio, Rat(1, 1)),
              <<"Video is landscape (", aspect_ratio>>),
          /\ sized /\ Gt(aspect_ratio, Rat(0, 1)) /\ ~Gt(aspect_ratio, Rat(1, 1))
          /\ Gt(AbsDiff(aspect_ratio, PREFERRED_ASPECT_RATIO), Rat(1, 10)),
              <<"Aspect ratio ", aspect_ratio, " may not be optimal">>)

\* _validate_metadata (245-276): the list of error messages
ValidateMetadata(metadata) ==
    LET duration == metadata.duration
        width == metadata.width
        height == metadata.height
        aspect_ratio == metadata.aspect_ratio
        sized == width > 0 /\ height > 0
    IN  AppendIf(AppendIf(AppendIf(AppendIf(AppendIf(AppendIf(<<>>,
          Lt(duration, Rat(MIN_DURATION, 1)),
              <<"Video too short: ", duration>>),
          Gt(duration, Rat(INSTAGRAM_REELS_MAX_DURATION, 1)),
              <<"Video too long: ", duration>>),
          sized /\ (width < MIN_RESOLUTION[1] \/ height < MIN_RESOLUTION[2]),
              <<"Resolution too low: ", width, "x", height>>),
          sized /\ (width > MAX_RESOLUTION[1] \/ height > MAX_RESOLUTION[2]),
              <<"Resolution too high: ", width, "x", height>>),
          sized /\ Gt(aspect_ratio, Rat(0, 1)) /\ Gt(aspect_ratio, Rat(1, 1)),
              <<"Video is landscape (", aspect_ratio>>),
          /\ sized /\ Gt(aspect_ratio, Rat(0, 1)) /\ ~Gt(aspect_ratio, Rat(1, 1))
          /\ Gt(AbsDiff(aspect_ratio, PREFERRED_ASPECT_RATIO), Rat(1, 10)),
              <<"Aspect ratio ", aspect_ratio, " may not be optimal">>)

\* Path(video_path).suffix, for a path that is a file name: the text from
\* the last point on, unless that point is the first or the last character
Suffix(name) ==
    LET points == { i \in 1..Len(name) : name[i] = "." }
        last == CHOOSE i \in points : \A j \in points : j <= i
    IN  IF points = {} THEN <<>>
        ELSE IF last = 1 \/ last = Len(name) THEN <<>>
        ELSE SubSeq(name, last, Len(name))

FileExtAsWritten(name) == Suffix(name)

\* Path(video_path).suffix.lower() (73)
FileExt(name) == Lower(Suffix(name))

Supported(file_ext) ==
    \E i \in 1..Len(SUPPORTED_FORMATS) : SUPPORTED_FORMATS[i] = file_ext

\* "; ".join(validation_errors) (106)
RECURSIVE JoinErrors(_)
JoinErrors(errors) ==
    IF errors = <<>> THEN <<>>
    ELSE IF Len(errors) = 1 THEN errors[1]
    ELSE errors[1] \o <<"; ">> \o JoinErrors(Tail(errors))

\* a fallback that reports one second
MinimalMetadataOneSecond ==
    [duration |-> Rat(1, 1), width |-> 0, height |-> 0, aspect_ratio |-> Rat(0, 1)]

\* the minimal fallback of _get_basic_metadata (224-233)
MinimalMetadata ==
    [duration |-> Rat(0, 1), width |-> 0, height |-> 0, aspect_ratio |-> Rat(0, 1)]

\* a field of ValidationResult that is None (14-26)
NoneRat == Rat(0, 0)

\* Python values as the compatibility checks return them
PyBool(b)  == [kind |-> "bool", truth |-> b]
PyNumber(a) == IF a = NoneRat THEN [kind |-> "None", truth |-> FALSE]
               ELSE [kind |-> "number", truth |-> a.n # 0]

\* a and b and ...: the first operand that is false, or the last one
RECURSIVE AndChain(_)
AndChain(operands) ==
    IF Len(operands) = 1 \/ ~operands[1].truth THEN operands[1]
    ELSE AndChain(Tail(operands))

IsYoutubeShortsCompatibleValidityIgnored(validated) ==
    AndChain(<< PyNumber(validated.duration),
                PyBool(Le(validated.duration, Rat(YOUTUBE_SHORTS_MAX_DURATION, 1))),
                PyNumber(validated.aspect_ratio),
                PyBool(Le(validated.aspect_ratio, Rat(1, 1))) >>)

\* _is_youtube_shorts_compatible (298-306)
IsYoutubeShortsCompatible(validated) ==
    IF ~validated.is_valid THEN PyBool(FALSE)
    ELSE AndChain(<< PyNumber(validated.duration),
                     PyBool(Le(validated.duration,
                               Rat(YOUTUBE_SHORTS_MAX_DURATION, 1))),
                     PyNumber(validated.aspect_ratio),
                     PyBool(Le(validated.aspect_ratio, Rat(1, 1))) >>)

\* _is_instagram_reels_compatible (308-316)
IsInstagramReelsCompatible(validated) ==
    IF ~validated.is_valid THEN PyBool(FALSE)
    ELSE AndChain(<< PyNumber(validated.duration),
                     PyBool(Le(validated.duration,
                               Rat(INSTAGRAM_REELS_MAX_DURATION, 1))),
                     PyNumber(validated.aspect_ratio),
                     PyBool(Le(validated.aspect_ratio, Rat(1, 1))) >>)

(***************************************************************************)
(* split_competition (transfer_spending/scripts/clean_csv.py 5-33).  The   *)
(* argument is [kind, text]: a str with its characters, or another value.  *)
(***************************************************************************)
AllSpace(text) == \A i \in 1..Len(text) : IsSpace(text[i])

\* \d{2}/\d{2}
IsSeasonCode(text) ==
    /\ Len(text) = 5
    /\ IsDigit(text[1]) /\ IsDigit(text[2])
    /\ text[3] = "/"
    /\ IsDigit(text[4]) /\ IsDigit(text[5])

MatchAtAnyGap(text, start) ==
    \E gap \in 0..(Len(text) - start + 1) :
        /\ start + gap + 4 <= Len(text)
        /\ AllSpace(SubSeq(text, start, start + gap - 1))
        /\ IsSeasonCode(SubSeq(text, start + gap, start + gap + 4))
        /\ AllSpace(SubSeq(text, start + gap + 5, Len(text)))

\* season_pattern (22) matches at `start`: one or more white-space
\* characters, the season code, white space up to the end
MatchAt(text, start) ==
    \E gap \in 1..(Len(text) - start + 1) :
        /\ start + gap + 4 <= Len(text)
        /\ AllSpace(SubSeq(text, start, start + gap - 1))
        /\ IsSeasonCode(SubSeq(text, start + gap, start + gap + 4))
        /\ AllSpace(SubSeq(text, start + gap + 5, Len(text)))

\* re.search (25): the leftmost position of a match, 0 if there is none
Search(text) ==
    IF \E i \in 1..Len(text) : MatchAt(text, i)
    THEN CHOOSE i \in 1..Len(text) :
            MatchAt(text, i) /\ \A j \in 1..(i - 1) : ~MatchAt(text, j)
    ELSE 0

\* match.group(1): the five characters after the white space
Group1(text, start) ==
    LET first == CHOOSE i \in start..Len(text) :
                    ~IsSpace(text[i]) /\ \A j \in start..(i - 1) : IsSpace(text[j])
    IN  SubSeq(text, first, first + 4)

\* split_competition (5-33): <<league, season>>
SplitCompetition(competition_str) ==
    IF competition_str.kind # "str" \/ competition_str.text = <<>>
    THEN << <<>>, <<>> >>
    ELSE LET stripped == Strip(competition_str.text)
             start == Search(stripped)
         IN  IF start # 0
             THEN << Strip(SubSeq(stripped, 1, start - 1)), Group1(stripped, start) >>
             ELSE << Strip(stripped), <<>> >>

(***************************************************************************)
(* upload_video (upload_video.py 60-172).                                  *)
(***************************************************************************)
\* mutant of IsValid: the validation verdict is ignored
IsValidIgnored(vr) == TRUE

\* line 109: uploads are prepared only for a valid video
IsValid(vr) == vr.is_valid

\* lines 110-116: one failed result per element of platforms
ValidationFailureResults(plats, vr) ==
    [i \in 1..Len(plats) |->
        UploadResult(plats[i], FALSE,
                     <<"Video ", "validation failed", ": ">> \o vr.error_message)]

\* lines 119-134: the YouTube coroutine first, then the Instagram one
UploadTasks(plats) ==
    (IF InSeq("youtube", plats) THEN <<"youtube">> ELSE <<>>)
    \o (IF InSeq("instagram", plats) THEN <<"instagram">> ELSE <<>>)

\* line 143: the platform a gathered exception at index i is reported under
ExceptionPlatform(plats, tasks, i) == plats[i]

\* lines 141-150
ProcessResult(plats, tasks, i, result) ==
    IF result.isExc
    THEN UploadResult(ExceptionPlatform(plats, tasks, i), FALSE, Str(result.exc))
    ELSE result

\* lines 168-172: the finally block
Cleanup ==
    temp_exists' = IF temp_file_path /\ temp_exists THEN FALSE ELSE temp_exists

\* lines 94-105
HandleSource ==
    /\ pc = "start"
    /\ \/ /\ is_bytes
          /\ temp_exists' = TRUE
          /\ temp_file_path' = TRUE
          /\ pc' = "validate"
          /\ UNCHANGED raised
       \/ /\ is_bytes
          \* temp_file.write raises: the file exists, temp_file_path is None
          /\ temp_exists' = TRUE
          /\ temp_file_path' = FALSE
          /\ raised' = Exc("OSError", <<"No space left on device">>)
          /\ pc' = "raised"
       \/ /\ ~is_bytes
          /\ pc' = "validate"
          /\ UNCHANGED <<temp_exists, temp_file_path, raised>>
    /\ UNCHANGED <<argvars, validation_result, upload_tasks, taskvars,
                   upload_results, outvars>>

\* lines 107-134
Validate ==
    /\ pc = "validate"
    /\ \E vr \in ValidationResults :
         /\ validation_result' = vr
         /\ IF ~IsValid(vr)
            THEN /\ upload_results' = ValidationFailureResults(platforms, vr)
                 /\ Cleanup
                 /\ pc' = "returned"
                 /\ UNCHANGED <<upload_tasks, tpc>>
            ELSE /\ upload_tasks' = UploadTasks(platforms)
                 /\ tpc' = [p \in Uploaders |->
                              IF InSeq(p, UploadTasks(platforms))
                              THEN "attempt" ELSE "none"]
                 /\ pc' = "gather"
                 /\ UNCHANGED <<upload_results, temp_exists>>
    /\ UNCHANGED <<argvars, temp_file_path, attempt_number, retry_count,
                   chunks, http_status, youtube, authenticated, gathered, finished,
                   last_failure,
                   failed_requests, published, raised, outvars>>

\* line 137: asyncio.gather returns the results in the order of the
\* awaitables passed to it, whatever the order in which they finished
GatherAsCompleted(tasks, completed) == completed

Gather(tasks, completed) == tasks

\* lines 137-172: gather has every coroutine's result
Collect ==
    /\ pc = "gather"
    /\ \A i \in 1..Len(upload_tasks) : tpc[upload_tasks[i]] = "done"
    /\ upload_results' =
         [i \in 1..Len(upload_tasks) |->
            ProcessResult(platforms, upload_tasks, i,
                          gathered[Gather(upload_tasks, finished)[i]])]
    /\ Cleanup
    /\ pc' = "returned"
    /\ UNCHANGED <<argvars, temp_file_path, validation_result, upload_tasks,
                   taskvars, raised, outvars>>

(***************************************************************************)
(* The retry decorator and the wrappers _upload_to_youtube and             *)
(* _upload_to_instagram.                                                   *)
(***************************************************************************)
\* mutant of ShouldRetry: one attempt too many
ShouldRetryOnceMore(n) == n <= MaxAttempts

\* tenacity's stop_after_attempt: attempt n failed, is another one made
ShouldRetry(n) == n < MaxAttempts

\* what the decorated upload raises into the wrapper once attempt n failed
\* with e and no further attempt is made
RetryRaises(e) == RetryError(e)

\* upload_video.py 207-215 and 244-252: except Exception as e -> failed result
FailureResult(p, e) == UploadResult(p, FALSE, Str(e))

\* attempt n of platform p ended with exception e
AttemptFailed(p, n, e) ==
    /\ last_failure' = [last_failure EXCEPT ![p] = e]
    /\ IF ShouldRetry(n)
       THEN /\ tpc' = [tpc EXCEPT ![p] = "attempt"]
            /\ UNCHANGED <<gathered, finished>>
       ELSE /\ tpc' = [tpc EXCEPT ![p] = "done"]
            /\ gathered' = [gathered EXCEPT
                              ![p] = FailureResult(p, RetryRaises(e))]
            /\ finished' = Append(finished, p)

\* upload_video.py 199-205 and 236-242
AttemptSucceeded(p) ==
    /\ tpc' = [tpc EXCEPT ![p] = "done"]
    /\ gathered' = [gathered EXCEPT ![p] = UploadResult(p, TRUE, <<>>)]
    /\ finished' = Append(finished, p)
    /\ last_failure' = [last_failure EXCEPT ![p] = NoExc]

Bump(f, p) == [f EXCEPT ![p] = @ + 1]

\* youtube_uploader.py 115-117 and instagram_uploader.py 111-113: upload
\* raises when the uploader is not authenticated yet and authenticate()
\* returns False
AuthenticationSkipped(flag, auth_ok) == FALSE

AuthenticationFails(flag, auth_ok) == ~flag /\ ~auth_ok

(***************************************************************************)
(* YouTubeUploader.upload (youtube_uploader.py 82-188).                    *)
(***************************************************************************)
\* statuses of the HttpError that next_chunk is made to raise
HttpStatuses == {500, 503, 403}

\* line 205
Retryable(status) == status \in {500, 502, 503, 504}

\* every HttpError is retried while retry_count < max_retries
ChunkRetryAllowedAnyStatus(status, count) == count < max_retries

\* lines 206-211: a retryable error is retried while retry_count < max_retries
ChunkRetryAllowed(status, count) == Retryable(status) /\ count < max_retries

\* lines 180-184
HttpErrorRaises(status) ==
    Exc("Exception", <<"YouTube upload failed: ",
                       IF status = 403 THEN "quotaExceeded" ELSE "Backend Error">>)

\* lines 115-158: one attempt, up to the insert request
YouTubeAttempt ==
    /\ pc = "gather"
    /\ tpc["youtube"] = "attempt"
    /\ attempt_number' = Bump(attempt_number, "youtube")
    /\ failed_requests' = [failed_requests EXCEPT !["youtube"] = 0]
    /\ \E auth_ok \in BOOLEAN :
         IF AuthenticationFails(youtube, auth_ok)
         THEN /\ AttemptFailed("youtube", attempt_number["youtube"] + 1,
                    Exc("Exception", <<"YouTube authentication failed">>))
              /\ UNCHANGED youtube
         ELSE /\ youtube' = (youtube \/ auth_ok)
              /\ tpc' = [tpc EXCEPT !["youtube"] = "chunk"]
              /\ UNCHANGED <<gathered, finished, last_failure>>
    /\ UNCHANGED <<pc, argvars, temp_exists, temp_file_path, validation_result,
                   upload_tasks, retry_count, chunks, http_status, authenticated,
                   published,
                   upload_results, raised, outvars>>

\* the locals of _execute_upload_with_progress end with the call
LeaveChunkLoop == retry_count' = 0 /\ chunks' = 0 /\ http_status' = 0

\* lines 160-188 with _execute_upload_with_progress (190-216): one call of
\* insert_request.next_chunk() and what follows it
YouTubeNextChunk ==
    /\ pc = "gather"
    /\ tpc["youtube"] = "chunk"
    /\ \/ \* (status, None): the loop goes on
          /\ chunks < MaxChunks
          /\ chunks' = chunks + 1
          /\ UNCHANGED <<tpc, gathered, finished, last_failure, retry_count,
                         http_status, failed_requests, published>>
       \/ \* a response: the video is on YouTube; lines 162-178 succeed
          /\ published' = Bump(published, "youtube")
          /\ AttemptSucceeded("youtube")
          /\ LeaveChunkLoop
          /\ UNCHANGED failed_requests
       \/ \* a response without 'id': line 162 raises KeyError
          /\ published' = Bump(published, "youtube")
          /\ AttemptFailed("youtube", attempt_number["youtube"],
                           Exc("KeyError", <<"'id'">>))
          /\ LeaveChunkLoop
          /\ UNCHANGED failed_requests
       \/ \* HttpError
          \E status \in HttpStatuses :
             /\ failed_requests' = Bump(failed_requests, "youtube")
             /\ IF ChunkRetryAllowed(status, retry_count)
                THEN /\ retry_count' = retry_count + 1
                     /\ http_status' = status
                     /\ UNCHANGED <<tpc, gathered, finished, last_failure, chunks,
                                    published>>
                ELSE /\ AttemptFailed("youtube", attempt_number["youtube"],
                                      HttpErrorRaises(status))
                     /\ LeaveChunkLoop
                     /\ UNCHANGED published
       \/ \* any other exception: logged and raised again (212-214, 186-188)
          /\ failed_requests' = Bump(failed_requests, "youtube")
          /\ AttemptFailed("youtube", attempt_number["youtube"],
                           Exc("ConnectionError", <<"Connection reset by peer">>))
          /\ LeaveChunkLoop
          /\ UNCHANGED published
    /\ UNCHANGED <<pc, argvars, temp_exists, temp_file_path, validation_result,
                   upload_tasks, attempt_number, youtube, authenticated,
                   upload_results, raised, outvars>>

(***************************************************************************)
(* InstagramUploader.upload (instagram_uploader.py 82-173).                *)
(***************************************************************************)
ClipUploadErrors == {"RateLimitError", "FeedbackRequired", "LoginRequired",
                     "ClientError"}

\* lines 158-173: the exception raised for each exception caught
InstagramRaises(cls) ==
    CASE cls = "RateLimitError" ->
           Exc("Exception",
               <<"Instagram rate limit exceeded. Please try again later.">>)
      [] cls = "FeedbackRequired" ->
           Exc("Exception",
               <<"Instagram requires feedback. Please check your account.">>)
      [] cls = "LoginRequired" ->
           Exc("Exception",
               <<"Instagram login expired. Please re-authenticate.">>)
      [] OTHER ->
           Exc("Exception", <<"Instagram upload failed: ", cls>>)

\* the flag survives every exception
AuthenticatedAfterKept(cls, before) == before

\* line 168
AuthenticatedAfter(cls, before) ==
    IF cls = "LoginRequired" THEN FALSE ELSE before

\* lines 111-125: one attempt, up to the clip_upload call
InstagramAttempt ==
    /\ pc = "gather"
    /\ tpc["instagram"] = "attempt"
    /\ attempt_number' = Bump(attempt_number, "instagram")
    /\ failed_requests' = [failed_requests EXCEPT !["instagram"] = 0]
    /\ \E auth_ok \in BOOLEAN :
         IF AuthenticationFails(authenticated, auth_ok)
         THEN /\ AttemptFailed("instagram", attempt_number["instagram"] + 1,
                    Exc("Exception", <<"Instagram authentication failed">>))
              /\ UNCHANGED authenticated
         ELSE /\ authenticated' = (authenticated \/ auth_ok)
              /\ tpc' = [tpc EXCEPT !["instagram"] = "clip"]
              /\ UNCHANGED <<gathered, finished, last_failure>>
    /\ UNCHANGED <<pc, argvars, temp_exists, temp_file_path, validation_result,
                   upload_tasks, retry_count, chunks, http_status, youtube,
                   published,
                   upload_results, raised, outvars>>

\* lines 127-173: the clip_upload call and what follows it
InstagramClipUpload ==
    /\ pc = "gather"
    /\ tpc["instagram"] = "clip"
    /\ \/ \* the Reel is published; lines 134-156 succeed
          /\ published' = Bump(published, "instagram")
          /\ AttemptSucceeded("instagram")
          /\ UNCHANGED <<authenticated, failed_requests>>
       \/ \* the Reel is published; os.unlink(cover_path) raises (146)
          /\ published' = Bump(published, "instagram")
          /\ AttemptFailed("instagram", attempt_number["instagram"],
                           InstagramRaises("OSError"))
          /\ UNCHANGED <<authenticated, failed_requests>>
       \/ \* clip_upload raises
          \E cls \in ClipUploadErrors :
             /\ failed_requests' = Bump(failed_requests, "instagram")
             /\ authenticated' = AuthenticatedAfter(cls, authenticated)
             /\ AttemptFailed("instagram", attempt_number["instagram"],
                              InstagramRaises(cls))
             /\ UNCHANGED published
    /\ UNCHANGED <<pc, argvars, temp_exists, temp_file_path, validation_result,
                   upload_tasks, attempt_number, retry_count, chunks,
                   http_status, youtube, upload_results, raised, outvars>>

\* An exception escapes a coroutine handed to gather (the case lines 142-148
\* handle; test_upload_video_partial_failure drives it with a coroutine that
\* raises when awaited)
TaskRaises ==
    /\ pc = "gather"
    /\ \E p \in Uploaders :
         /\ tpc[p] = "attempt"
         /\ attempt_number[p] = 0
         /\ tpc' = [tpc EXCEPT ![p] = "done"]
         /\ gathered' = [gathered EXCEPT
               ![p] = Raised(Exc("Exception", <<p, " upload failed">>))]
         /\ finished' = Append(finished, p)
    /\ UNCHANGED <<pc, argvars, temp_exists, temp_file_path, validation_result,
                   upload_tasks, attempt_number, retry_count, chunks,
                   http_status, youtube, authenticated, last_failure, failed_requests,
                   published, upload_results, raised, outvars>>

\* An exception escapes upload_video while it validates or while it processes
\* what gather returned: the finally block (168-172) runs and the exception
\* reaches the caller
UploadVideoRaises ==
    /\ \/ pc = "validate"
       \/ /\ pc = "gather"
          /\ \A i \in 1..Len(upload_tasks) : tpc[upload_tasks[i]] = "done"
    /\ raised' = Exc("RuntimeError", <<"Event loop is closed">>)
    /\ Cleanup
    /\ pc' = "raised"
    /\ UNCHANGED <<argvars, temp_file_path, validation_result, upload_tasks,
                   taskvars, upload_results, outvars>>

(***************************************************************************)
(* main (upload_video.py 265-318).                                         *)
(***************************************************************************)
\* lines 293-303
ResultRecord(r) ==
    [platform |-> r.platform, success |-> r.success,
     error_message |-> r.error_message]

\* mutant of ExitStatus: all() where the code has any()
ExitStatusIfAllFailed(results) ==
    IF \A i \in 1..Len(results) : ~results[i].success THEN 1 ELSE 0

\* lines 308-309; without sys.exit the process ends with status 0
ExitStatus(results) ==
    IF \E i \in 1..Len(results) : ~results[i].success THEN 1 ELSE 0

\* lines 292-309
MainReport ==
    /\ caller = "main"
    /\ pc = "returned"
    /\ stdout' = [i \in 1..Len(upload_results) |-> ResultRecord(upload_results[i])]
    /\ exit_code' = ExitStatus(upload_results)
    /\ pc' = "exited"
    /\ UNCHANGED <<argvars, temp_exists, temp_file_path, validation_result,
                   upload_tasks, taskvars, upload_results, raised>>

\* lines 311-318
MainExcept ==
    /\ caller = "main"
    /\ pc = "raised"
    /\ stdout' = << [platform |-> "all", success |-> FALSE,
                     error_message |-> Str(raised)] >>
    /\ exit_code' = 1
    /\ pc' = "exited"
    /\ UNCHANGED <<argvars, temp_exists, temp_file_path, validation_result,
                   upload_tasks, taskvars, upload_results, raised>>

\* the upload leaves the configuration alone
UNext ==
    \/ HandleSource /\ UNCHANGED <<cvars, pvars>>
    \/ Validate /\ UNCHANGED <<cvars, pvars>>
    \/ YouTubeAttempt /\ UNCHANGED <<cvars, pvars>>
    \/ YouTubeNextChunk /\ UNCHANGED <<cvars, pvars>>
    \/ InstagramAttempt /\ UNCHANGED <<cvars, pvars>>
    \/ InstagramClipUpload /\ UNCHANGED <<cvars, pvars>>
    \/ TaskRaises /\ UNCHANGED <<cvars, pvars>>
    \/ Collect /\ UNCHANGED <<cvars, pvars>>
    \/ UploadVideoRaises /\ UNCHANGED <<cvars, pvars>>
    \/ MainReport /\ UNCHANGED <<cvars, pvars>>
    \/ MainExcept /\ UNCHANGED <<cvars, pvars>>

\* an uploader on which nothing is called
UIdle ==
    /\ UInit
    /\ caller = "api"
    /\ platforms = <<>>

CNext ==
    \/ Construct /\ UNCHANGED <<uvars, pvars>>
    \/ Set /\ UNCHANGED <<uvars, pvars>>

\* no function is called on its own
NoResult == "none"
PIdle ==
    /\ call = "none"
    /\ args = <<>>
    /\ returned = NoResult

Init == UInit /\ CIdle /\ PIdle
Next == UNext
Spec == Init /\ [][Next]_vars

InitConfig == UIdle /\ CInit /\ PIdle
SpecConfig == InitConfig /\ [][CNext]_vars

(***************************************************************************)
(* Functions called on their own: the arguments are drawn in the initial   *)
(* state and the one action of the specification applies the function.     *)
(***************************************************************************)
MaxTextLen == 3

UpperChar(c) ==
    IF \E i \in 1..Len(LowerChars) : LowerChars[i] = c
    THEN UpperChars[CHOOSE i \in 1..Len(LowerChars) : LowerChars[i] = c]
    ELSE c

\* the spellings of a lower-case word in every letter case
LetterCases(word) ==
    { [i \in 1..Len(word) |-> IF i \in upper THEN UpperChar(word[i]) ELSE word[i]] :
        upper \in SUBSET (1..Len(word)) }

ConvertChars == {"0", "1", "-", "+", ".", "e", "_", " ", "x"}

\* values of environment variables
ConvertTexts ==
    SeqsUpTo(ConvertChars, MaxTextLen)
    \cup LetterCases(<<"t", "r", "u", "e">>)
    \cup LetterCases(<<"f", "a", "l", "s", "e">>)
    \cup LetterCases(<<"i", "n", "f">>)
    \cup { <<"1", "2", "3">>, <<"-", "4", "5", "6">>,
           <<"1", "2", "3", ".", "4", "5">>, <<"-", "6", "7", ".", "8", "9">>,
           <<"t", "e", "s", "t", "_", "s", "t", "r", "i", "n", "g">>,
           <<"t", "r", "u", "e", " ">>, <<"1", "e", "-", "1", "0">> }

InitConvert ==
    /\ UIdle /\ CIdle
    /\ call = "none"
    /\ args \in ConvertTexts
    /\ returned = NoResult

\* config._convert_env_value(value)
Convert ==
    /\ call = "none"
    /\ call' = "_convert_env_value"
    /\ returned' = ConvertEnvValue(args)
    /\ UNCHANGED <<uvars, cvars, args>>

SpecConvert == InitConvert /\ [][Convert]_vars

\* configurations get is called on
GetDatas ==
    { LoadConfigFile(Defaults, file) : file \in FileConfigs } \cup { EmptyDict }

GetKeyPaths ==
    SetKeyPaths
    \cup { <<"youtube", ".", "missing">>,
           <<"missing", ".", "key">>,
           <<"custom_setting">>,
           <<"video", ".", "min_duration", ".", "seconds">>,
           <<"upload", ".", "concurrent_uploads", ".", "enabled">>,
           <<"instagram", ".", "max_retries", ".", "count">>,
           <<"logging", ".", "file_path">>,
           <<"youtube", ".", ".", "category_id">>,
           <<>> }

GetDefaults == { VNone, VStr(<<"fallback">>), VInt(0) }

InitGet ==
    /\ UIdle /\ CIdle
    /\ call = "none"
    /\ args \in [data : GetDatas, key_path : GetKeyPaths, default : GetDefaults]
    /\ returned = NoResult

\* config.get(key_path, default)
GetCall ==
    /\ call = "none"
    /\ call' = "get"
    /\ returned' = GetOutcome(args.data, args.key_path, args.default)
    /\ UNCHANGED <<uvars, cvars, args>>

SpecGet == InitGet /\ [][GetCall]_vars

\* dictionaries of two levels: base holds the value 0 in its leaves, update
\* holds the values 1..MaxLeaf
MaxLeaf == 2

MergeKeys == {"a", "b"}

DictsOver(keys, values) ==
    UNION { [chosen -> values] : chosen \in SUBSET keys }

NestedDicts(leaves) ==
    DictsOver(MergeKeys,
              leaves \cup { VDict(d) : d \in DictsOver(MergeKeys, leaves) })

MergeBases == NestedDicts({ VInt(0) })
MergeUpdates == NestedDicts({ VInt(n) : n \in 1..MaxLeaf })

InitMerge ==
    /\ UIdle /\ CIdle
    /\ call = "none"
    /\ args \in [base : MergeBases, update : MergeUpdates]
    /\ returned = NoResult

\* config._deep_merge(base, update); returned is base after the call
Merge ==
    /\ call = "none"
    /\ call' = "_deep_merge"
    /\ returned' = DeepMerge(args.base, args.update)
    /\ UNCHANGED <<uvars, cvars, args>>

SpecMerge == InitMerge /\ [][Merge]_vars

\* metadata as ffprobe and OpenCV report it: no negative quantities
Durations ==
    { Rat(0, 1), Rat(1, 2), Rat(1, 1), Rat(30, 1), Rat(60, 1), Rat(121, 2),
      Rat(90, 1), Rat(181, 2), Rat(100, 1) }
Widths == { 0, 640, 720, 1080, 1920 }
Heights == { 0, 480, 1280, 1920, 2160 }
AspectRatios ==
    { Rat(0, 1), Rat(2, 5), Rat(37, 80), Rat(9, 16), Rat(53, 80), Rat(3, 4),
      Rat(1, 1), Rat(16, 9) }

Metadatas ==
    [duration : Durations, width : Widths, height : Heights,
     aspect_ratio : AspectRatios]

InitMetadata ==
    /\ UIdle /\ CIdle
    /\ call = "none"
    /\ args \in Metadatas
    /\ returned = NoResult

\* validator._validate_metadata(metadata)
ValidateMetadataCall ==
    /\ call = "none"
    /\ call' = "_validate_metadata"
    /\ returned' = ValidateMetadata(args)
    /\ UNCHANGED <<uvars, cvars, args>>

SpecMetadata == InitMetadata /\ [][ValidateMetadataCall]_vars

\* validate_video (56-123), step by step.  call is the check that comes
\* next; returned holds the checks done so far, whether metadata was probed
\* and, at the end, the ValidationResult.
VideoNames ==
    { <<"a", ".", "m", "p", "4">>, <<"a", ".", "M", "P", "4">>,
      <<"a", ".", "M", "o", "v">>, <<"a", ".", "a", "v", "i">>,
      <<"a", ".", "m", "k", "v">>, <<"a">>, <<".", "m", "p", "4">>,
      <<"a", ".">>, <<"a", ".", "t", "a", "r", ".", "m", "p", "4">>,
      <<"a", ".", "m", "p", "4", ".", "t", "x", "t">> }

FileSizes == { 0, 1, MAX_FILE_SIZE, MAX_FILE_SIZE + 1 }

\* what ffprobe or OpenCV report for the file
ProbedMetadatas ==
    { [duration |-> Rat(30, 1), width |-> 1080, height |-> 1920,
       aspect_ratio |-> Rat(9, 16)],
      [duration |-> Rat(100, 1), width |-> 1920, height |-> 1080,
       aspect_ratio |-> Rat(16, 9)] }

InitValidate ==
    /\ UIdle /\ CIdle
    /\ call = "exists"
    /\ args \in [video_path : VideoNames, exists : BOOLEAN,
                  file_size : FileSizes, ffprobe_available : BOOLEAN,
                  opencv_available : BOOLEAN]
    /\ returned = [checks |-> <<>>, probed |-> FALSE,
                   validation |-> NoValidation, upload_tasks |-> <<>>]

\* a check has been made; it ends validate_video with `message` if it
\* failed, else the check `next` follows
Checked(check, failed, message, next) ==
    /\ call' = IF failed THEN "done" ELSE next
    /\ returned' = [checks |-> Append(returned.checks, check),
                    probed |-> FALSE,
                    validation |-> IF failed THEN ValidationResult(FALSE, message)
                                   ELSE returned.validation,
                    upload_tasks |-> <<>>]
    /\ UNCHANGED <<uvars, cvars, args>>

\* 66-70
CheckExists ==
    /\ call = "exists"
    /\ Checked("exists", ~args.exists,
               <<"Video file not found: ">> \o args.video_path, "extension")

\* 72-78
CheckExtension ==
    /\ call = "extension"
    /\ Checked("extension", ~Supported(FileExt(args.video_path)),
               <<"Unsupported format: ">> \o FileExt(args.video_path),
               "size")

\* 80-86
CheckFileSize ==
    /\ call = "size"
    /\ Checked("size", args.file_size > MAX_FILE_SIZE,
               <<"File too large: ", args.file_size>>, "empty")

\* 88-92
CheckEmpty ==
    /\ call = "empty"
    /\ Checked("empty", args.file_size = 0, <<"Video file is empty">>, "metadata")

\* 189-233: what _get_basic_metadata can return: what OpenCV reports, or the
\* minimal fallback when cv2 cannot be imported, does not open the file or
\* fails
BasicMetadatas(opencv_available) ==
    IF opencv_available THEN ProbedMetadatas \cup {MinimalMetadata}
    ELSE {MinimalMetadata}

\* 94-123: the metadata is probed and validated; ffprobe may fail, and
\* without ffprobe _get_basic_metadata is used
GetMetadata ==
    /\ call = "metadata"
    /\ call' = "done"
    /\ \/ \E metadata \in (IF args.ffprobe_available THEN ProbedMetadatas
                           ELSE BasicMetadatas(args.opencv_available)) :
             LET validation_errors == ValidateMetadata(metadata)
             IN  returned' =
                     [checks |-> Append(returned.checks, "metadata"),
                      probed |-> TRUE,
                      validation |->
                          IF validation_errors # <<>>
                          THEN ValidationResult(FALSE, JoinErrors(validation_errors))
                          ELSE ValidationResult(TRUE, <<>>),
                      upload_tasks |-> <<>>]
       \/ /\ args.ffprobe_available
          /\ returned' =
                 [checks |-> Append(returned.checks, "metadata"),
                  probed |-> TRUE,
                  validation |-> ValidationResult(FALSE,
                      <<"Validation error: ", "ffprobe failed: ">>),
                  upload_tasks |-> <<>>]
    /\ UNCHANGED <<uvars, cvars, args>>

\* upload_video.py 107-134 with the default platforms (87-88): upload_video
\* acts on the result of validate_video
StartUploads ==
    /\ call = "done"
    /\ call' = "upload_video"
    /\ returned' = [returned EXCEPT !.upload_tasks =
                       IF ~IsValid(returned.validation) THEN <<>>
                       ELSE UploadTasks(<<"youtube", "instagram">>)]
    /\ UNCHANGED <<uvars, cvars, args>>

ValidateNext ==
    \/ CheckExists
    \/ CheckExtension
    \/ CheckFileSize
    \/ CheckEmpty
    \/ GetMetadata
    \/ StartUploads

SpecValidate == InitValidate /\ [][ValidateNext]_vars

\* validation results, with the fields the compatibility checks read
InitCompatible ==
    /\ UIdle /\ CIdle
    /\ call = "none"
    /\ args \in [is_valid : BOOLEAN,
                  duration : Durations \cup {NoneRat},
                  aspect_ratio : AspectRatios \cup {NoneRat}]
    /\ returned = NoResult

\* the two checks of get_video_info (294-295) on one result
CompatibleCall ==
    /\ call = "none"
    /\ call' = "compatible"
    /\ returned' = [youtube_shorts_compatible |-> IsYoutubeShortsCompatible(args),
                    instagram_reels_compatible |-> IsInstagramReelsCompatible(args)]
    /\ UNCHANGED <<uvars, cvars, args>>

SpecCompatible == InitCompatible /\ [][CompatibleCall]_vars

\* competition strings: every text of up to MaxCompetitionLen characters
\* over a letter, two digits, the slash and the blank, the strings of the
\* tests, None and a number
MaxCompetitionLen == 7

CompetitionChars == {"L", "2", "/", " "}

Competitions ==
    { [kind |-> "str", text |-> text] :
        text \in SeqsUpTo(CompetitionChars, MaxCompetitionLen)
                 \cup { <<"P", "r", "e", "m", "i", "e", "r", " ", "L", "e", "a", "g", "u", "e", " ", "2", "2", "/", "2", "3">>,
      <<"L", "i", "g", "u", "e", " ", "1", " ", "2", "3", "/", "2", "4">>,
      <<"P", "r", "e", "m", "i", "e", "r", " ", "L", "e", "a", "g", "u", "e">>,
      <<"P", "r", "e", "m", "i", "e", "r", " ", "L", "e", "a", "g", "u", "e", " ", "2", "0", "2", "2", "/", "2", "3">>,
      <<"P", "r", "e", "m", "i", "e", "r", " ", "L", "e", "a", "g", "u", "e", " ", "2", "2", "/", "2", "3", " ", "E", "x", "t", "r", "a">>,
      <<" ", " ", "P", "r", "e", "m", "i", "e", "r", " ", "L", "e", "a", "g", "u", "e", " ", " ", " ", "2", "2", "/", "2", "3", " ", " ">> } }
    \cup { [kind |-> "None", text |-> <<>>], [kind |-> "int", text |-> <<>>] }

InitSplit ==
    /\ UIdle /\ CIdle
    /\ call = "none"
    /\ args \in Competitions
    /\ returned = NoResult

\* split_competition(competition_str)
SplitCall ==
    /\ call = "none"
    /\ call' = "split_competition"
    /\ returned' = SplitCompetition(args)
    /\ UNCHANGED <<uvars, cvars, args>>

SpecSplit == InitSplit /\ [][SplitCall]_vars

\* two configurations that hold the same data and each its own password,
\* or none
NotSet == [t |-> "notset", s |-> <<>>, n |-> 0, x |-> 0, l |-> <<>>, d |-> EmptyDict]

Passwords ==
    { VStr(<<"secret_password">>), VStr(<<"hunter2">>), VInt(12345),
      Dict1("value", VStr(<<"nested_secret">>)), VNone }

PasswordPath == <<"instagram", ".", "password">>

StrDatas ==
    GetDatas
    \cup { Put(Defaults, "instagram", VStr(<<"my ", "password", " file">>)),
           Put(Defaults, "instagram", VList(<< VStr(<<"password">>) >>)),
           Put(Defaults, "instagram", VInt(0)) }

\* config.set('instagram.password', password) where it does not raise
WithPassword(data, password) ==
    IF password = NotSet THEN data
    ELSE SetNestedValue(data, PasswordPath, password).data

InitStr ==
    /\ UIdle /\ CIdle
    /\ call = "none"
    /\ args \in [data : StrDatas,
                  passwords : (Passwords \cup {NotSet}) \X (Passwords \cup {NotSet})]
    /\ returned = NoResult

\* str(config) of both configurations
StrCall ==
    /\ call = "none"
    /\ call' = "__str__"
    /\ returned' = [i \in 1..2 |->
                       StrOutcome(WithPassword(args.data, args.passwords[i]))]
    /\ UNCHANGED <<uvars, cvars, args>>

SpecStr == InitStr /\ [][StrCall]_vars

(***************************************************************************)
(* The schedule time in the requests (youtube_uploader.py 119-158,         *)
(* instagram_uploader.py 114-132).  A datetime has a date, a time of day,  *)
(* microseconds and, when it is aware, a UTC offset in minutes; the text   *)
(* isoformat() makes of it is a sequence of literal and numeric fragments. *)
(***************************************************************************)
DateTime(date, hour, minute, second, microsecond, aware, utcoffset) ==
    [is_none |-> FALSE, date |-> date, hour |-> hour, minute |-> minute,
     second |-> second, microsecond |-> microsecond, aware |-> aware,
     utcoffset |-> utcoffset]

\* schedule_time=None
NoTime ==
    [is_none |-> TRUE, date |-> "", hour |-> 0, minute |-> 0, second |-> 0,
     microsecond |-> 0, aware |-> FALSE, utcoffset |-> 0]

Lit(s) == [lit |-> TRUE, s |-> s, n |-> 0]
Num(n) == [lit |-> FALSE, s |-> "", n |-> n]

\* datetime.isoformat(): YYYY-MM-DDTHH:MM:SS, then .ffffff when microsecond
\* is not 0, then +HH:MM or -HH:MM when the datetime is aware
IsoFormat(dt) ==
    <<Lit(dt.date), Lit("T"), Num(dt.hour), Lit(":"), Num(dt.minute),
      Lit(":"), Num(dt.second)>>
    \o (IF dt.microsecond # 0 THEN <<Lit("."), Num(dt.microsecond)>> ELSE <<>>)
    \o (IF dt.aware
        THEN LET minutes == IF dt.utcoffset < 0 THEN -dt.utcoffset
                                                ELSE dt.utcoffset
             IN  <<Lit(IF dt.utcoffset < 0 THEN "-" ELSE "+"),
                   Num(minutes \div 60), Lit(":"), Num(minutes % 60)>>
        ELSE <<>>)

\* line 139, "if schedule_time:": None is false, every datetime is true
ScheduleGiven(schedule_time) == ~schedule_time.is_none

\* lines 138-141 without the assignment of line 141
BodyStatusPrivacyKept(privacy, schedule_time) ==
    IF ScheduleGiven(schedule_time)
    THEN [privacyStatus |-> privacy, selfDeclaredMadeForKids |-> FALSE,
          publishAt |-> IsoFormat(schedule_time)]
    ELSE [privacyStatus |-> privacy, selfDeclaredMadeForKids |-> FALSE]

\* lines 131-141: body['status'] of the insert request
BodyStatus(privacy, schedule_time) ==
    IF ScheduleGiven(schedule_time)
    THEN [privacyStatus |-> "private", selfDeclaredMadeForKids |-> FALSE,
          publishAt |-> IsoFormat(schedule_time)]
    ELSE [privacyStatus |-> privacy, selfDeclaredMadeForKids |-> FALSE]

\* instagram_uploader.py 114-132: the arguments of clip_upload
ClipUploadArguments(video_path, caption, schedule_time, cover_path) ==
    [path |-> video_path, caption |-> caption, thumbnail |-> cover_path]

\* upload_video.py 258: click.Choice(['public', 'unlisted', 'private'])
Privacies == {"public", "unlisted", "private"}

ScheduleTimes ==
    { DateTime("2024-12-01", hour, 0, second, microsecond, tz[1], tz[2]) :
        hour \in {0, 10}, second \in {0, 30}, microsecond \in {0, 250000},
        tz \in {<<FALSE, 0>>, <<TRUE, 0>>, <<TRUE, 330>>, <<TRUE, -480>>} }

InitSchedule ==
    /\ UIdle /\ CIdle
    /\ call = "none"
    /\ args \in [privacy : Privacies, schedule_time : ScheduleTimes \cup {NoTime}]
    /\ returned = NoResult

\* YouTubeUploader.upload builds the request body
BuildBody ==
    /\ call = "none"
    /\ call' = "videos.insert"
    /\ returned' = BodyStatus(args.privacy, args.schedule_time)
    /\ UNCHANGED <<uvars, cvars, args>>

\* InstagramUploader.upload calls clip_upload
ClipUpload ==
    /\ call = "none"
    /\ call' = "clip_upload"
    /\ returned' = ClipUploadArguments("video.mp4", <<"caption">>,
                                       args.schedule_time, "cover.jpg")
    /\ UNCHANGED <<uvars, cvars, args>>

SpecSchedule == InitSchedule /\ [][BuildBody \/ ClipUpload]_vars

(***************************************************************************)
(* Descriptions and captions (youtube_uploader.py 262-276,                 *)
(* instagram_uploader.py 210-235).  A text is `fill` copies of a letter    *)
(* that occurs in no hashtag, followed by the characters of `chars`; the   *)
(* functions append to a text and cut it, and search it for hashtags,      *)
(* which can only be found in `chars`.                                     *)
(***************************************************************************)
LongText(fill, chars) == [fill |-> fill, chars |-> chars]

\* len(text)
TextLen(text) == text.fill + Len(text.chars)

\* text + chars
Plus(text, chars) == LongText(text.fill, text.chars \o chars)

\* text[:stop]; a negative stop counts from the end
Slice(text, stop) ==
    LET n   == TextLen(text)
        end == IF stop < 0 THEN (IF n + stop < 0 THEN 0 ELSE n + stop)
               ELSE IF stop > n THEN n ELSE stop
    IN  IF end <= text.fill THEN LongText(end, <<>>)
        ELSE LongText(text.fill, SubSeq(text.chars, 1, end - text.fill))

\* part in text
In(part, text) == Contains(text.chars, part)

\* sep.join(items)
RECURSIVE Join(_, _)
Join(sep, items) ==
    IF items = <<>> THEN <<>>
    ELSE IF Len(items) = 1 THEN items[1]
    ELSE items[1] \o sep \o Join(sep, Tail(items))

\* s.replace(c, '') for every c of chars
Remove(s, chars) == SelectSeq(s, LAMBDA c : c \notin chars)

TagShorts == <<"#", "S", "h", "o", "r", "t", "s">>
TagShortsLower == <<"#", "s", "h", "o", "r", "t", "s">>

\* youtube_uploader.py 276: the YouTube description limit
DescriptionLimit == 5000

\* youtube_uploader.py 262-276
FormatDescription(description, tags) ==
    LET hashtags ==
            [i \in 1..(IF Len(tags) > 10 THEN 10 ELSE Len(tags)) |->
                <<"#">> \o Remove(tags[i], {" ", "#"})]
        tagged ==
            IF tags # <<>>
            THEN Plus(description, <<"\n", "\n">> \o Join(<<" ">>, hashtags))
            ELSE description
        formatted_desc ==
            IF ~In(TagShorts, tagged) /\ ~In(TagShortsLower, tagged)
            THEN Plus(tagged, <<"\n", "\n">> \o TagShorts)
            ELSE tagged
    IN  Slice(formatted_desc, DescriptionLimit)

\* descriptions: up to the limit and beyond it, ending in nothing, a word or
\* a Shorts hashtag
DescriptionFills == {0} \cup ((DescriptionLimit - 12)..(DescriptionLimit + 1))

DescriptionEnds == { <<>>, <<"h", "i">>, TagShorts, TagShortsLower }

TagLists ==
    { <<>>, << <<"f", "u", "n">> >>, << <<"S", "h", "o", "r", "t", "s">> >>,
      << <<"#", "a", " ", "b">>, <<"c">> >> }

InitDescription ==
    /\ UIdle /\ CIdle
    /\ call = "none"
    /\ args \in [description : { LongText(fill, chars) :
                                    fill \in DescriptionFills,
                                    chars \in DescriptionEnds },
                  tags : TagLists]
    /\ returned = NoResult

FormatDescriptionCall ==
    /\ call = "none"
    /\ call' = "_format_description"
    /\ returned' = FormatDescription(args.description, args.tags)
    /\ UNCHANGED <<uvars, cvars, args>>

SpecDescription == InitDescription /\ [][FormatDescriptionCall]_vars

\* chars.split('\n')
RECURSIVE SplitLines(_)
SplitLines(chars) ==
    LET newline == IndexOf(chars, {"\n"})
    IN  IF newline = 0 THEN << chars >>
        ELSE << SubSeq(chars, 1, newline - 1) >>
             \o SplitLines(SubSeq(chars, newline + 1, Len(chars)))

\* caption.split('\n'): the first line begins with the filler
TextLines(text) ==
    LET lines == SplitLines(text.chars)
    IN  [i \in 1..Len(lines) |->
            LongText(IF i = 1 THEN text.fill ELSE 0, lines[i])]

\* line.strip().startswith('#')
IsHashtagLine(line) ==
    /\ line.fill = 0
    /\ Strip(line.chars) # <<>>
    /\ Strip(line.chars)[1] = "#"

TagReels == <<"#", "R", "e", "e", "l", "s">>
TagReelsLower == <<"#", "r", "e", "e", "l", "s">>

\* instagram_uploader.py 212-213: the Instagram caption limit
CaptionLimit == 2200

\* instagram_uploader.py 210-235
FormatCaption(caption) ==
    LET lines == TextLines(caption)
        hashtag_lines == SelectSeq(lines, IsHashtagLine)
        content_lines == SelectSeq(lines, LAMBDA line : ~IsHashtagLine(line))
        content ==
            IF content_lines = <<>> THEN LongText(0, <<>>)
            ELSE LongText(content_lines[1].fill,
                          Join(<<"\n">>, [i \in 1..Len(content_lines) |->
                                             content_lines[i].chars]))
        hashtags == Join(<<"\n">>, [i \in 1..Len(hashtag_lines) |->
                                      hashtag_lines[i].chars])
        hashtag_space == IF hashtags # <<>> THEN Len(hashtags) + 2 ELSE 0
        max_content_length == CaptionLimit - hashtag_space
        cut ==
            IF TextLen(content) > max_content_length
            THEN Plus(Slice(content, max_content_length - 3), <<".", ".", ".">>)
            ELSE content
        truncated ==
            IF TextLen(caption) > CaptionLimit
            THEN IF hashtags # <<>>
                 THEN Plus(cut, <<"\n", "\n">> \o hashtags)
                 ELSE cut
            ELSE caption
    IN  IF ~In(TagReels, truncated) /\ ~In(TagReelsLower, truncated)
        THEN Plus(truncated, <<"\n", "\n">> \o TagReels)
        ELSE truncated

\* captions: up to the limit and beyond it, with and without hashtag lines
CaptionFills == {0} \cup ((CaptionLimit - 12)..(CaptionLimit + 6))

CaptionEnds ==
    { <<>>,
      <<"\n", "#", "f", "u", "n">>,
      <<"\n", "\n">> \o TagReels,
      <<" ">> \o TagReelsLower,
      <<"\n", " ", "#", "a", "\n", "y", "o", "\n", "#", "b", " ">>,
      <<"\n", "#", "a", "\n", "\n", "y", "o", "\n">> \o TagReels }

InitCaption ==
    /\ UIdle /\ CIdle
    /\ call = "none"
    /\ args \in { LongText(fill, chars) :
                     fill \in CaptionFills, chars \in CaptionEnds }
    /\ returned = NoResult

FormatCaptionCall ==
    /\ call = "none"
    /\ call' = "_format_caption"
    /\ returned' = FormatCaption(args)
    /\ UNCHANGED <<uvars, cvars, args>>

SpecCaption == InitCaption /\ [][FormatCaptionCall]_vars

(***************************************************************************)
(* Two runs of VideoUploader(config).upload_video on the same file         *)
(* (upload_video.py 39-43 and 107-116): each run has its own configuration *)
(* file, environment and platforms.                                        *)
(***************************************************************************)
\* video_validator.py 56-123 for a file whose probe yields video.metadata
ValidateVideo(video) ==
    IF ~video.exists
    THEN ValidationResult(FALSE, <<"Video file not found: ">> \o video.video_path)
    ELSE IF ~Supported(FileExt(video.video_path))
    THEN ValidationResult(FALSE,
                          <<"Unsupported format: ">> \o FileExt(video.video_path))
    ELSE IF video.file_size > MAX_FILE_SIZE
    THEN ValidationResult(FALSE, <<"File too large: ", video.file_size>>)
    ELSE IF video.file_size = 0
    THEN ValidationResult(FALSE, <<"Video file is empty">>)
    ELSE LET validation_errors == ValidateMetadata(video.metadata)
         IN  IF validation_errors # <<>>
             THEN ValidationResult(FALSE, JoinErrors(validation_errors))
             ELSE ValidationResult(TRUE, <<>>)

\* a validation that takes the size limit from video.max_file_size
RunValidationConfigured(config, plats, video) ==
    LET limit == Get(config, <<"video", ".", "max_file_size">>, VNone)
    IN  IF video.exists /\ limit.t = "int" /\ video.file_size > limit.n
        THEN ValidationResult(FALSE, <<"File too large: ", video.file_size>>)
        ELSE ValidateVideo(video)

\* upload_video.py 108: self.validator.validate_video(video_path), in a
\* VideoUploader that holds the configuration and was given the platforms
RunValidation(config, plats, video) == ValidateVideo(video)

Videos ==
    [video_path : { <<"a", ".", "m", "p", "4">>, <<"a", ".", "m", "k", "v">> },
     exists : BOOLEAN,
     file_size : { 0, 1001, MAX_FILE_SIZE + 1 },
     metadata : ProbedMetadatas \cup {MinimalMetadata}]

EnvironmentWith(names) ==
    [v \in EnvVars |-> IF v \in names THEN <<"1">> ELSE Unset]

RunEnvironments ==
    { EnvironmentWith({}), EnvironmentWith({"MAX_FILE_SIZE"}),
      EnvironmentWith({"MAX_DURATION_YOUTUBE", "MAX_DURATION_INSTAGRAM"}) }

RunFileConfigs ==
    { NoFile,
      VDict([ video |-> Dict2("max_file_size", VInt(1000),
                              "max_duration_youtube", VInt(5)) ]),
      VDict([ video |-> VStr(<<"off">>) ]) }

Runs ==
    [platforms : { <<"youtube">>, <<"instagram", "youtube">> },
     file_config : RunFileConfigs,
     environ : RunEnvironments]

NotRun == [state |-> "none", validation |-> NoValidation]

InitTwoRuns ==
    /\ UIdle /\ CIdle
    /\ call = "none"
    /\ args \in [video : Videos, runs : Runs \X Runs]
    /\ returned = <<NotRun, NotRun>>

\* one run: the constructor loads the configuration (a TypeError of
\* _set_nested_value escapes it), then upload_video validates the file
Run(i) ==
    /\ returned[i] = NotRun
    /\ call' = "upload_video"
    /\ LET run == args.runs[i]
           loaded == LoadEnvironment(LoadConfigFile(Defaults, run.file_config),
                                     run.environ)
       IN  returned' = [returned EXCEPT ![i] =
               IF loaded.raised
               THEN [state |-> "failed", validation |-> NoValidation]
               ELSE [state |-> "validated",
                     validation |->
                         RunValidation(loaded.data, run.platforms, args.video)]]
    /\ UNCHANGED <<uvars, cvars, args>>

RunFirst == Run(1)
RunSecond == Run(2)

SpecTwoRuns == InitTwoRuns /\ [][RunFirst \/ RunSecond]_vars

(***************************************************************************)
(* Properties of main and upload_video.                                    *)
(***************************************************************************)
Succeeded(entry) == ~entry.isExc /\ entry.success

Count(results, name) ==
    Cardinality({ i \in 1..Len(results) : results[i].platform = name })

Count2(names, name) ==
    Cardinality({ i \in 1..Len(names) : names[i] = name })

Requested(p) == InSeq(p, platforms)

Validated == validation_result # NoValidation

\* C1: once main has exited it has printed an array of records, one per
\* returned result or the single failure record after an exception, and its
\* exit status is 0 exactly when upload_video raised nothing and every
\* returned result has success true; otherwise it is 1.
C1_ExitStatus ==
    pc = "exited" =>
        /\ exit_code \in {0, 1}
        /\ exit_code = 0 <=>
              /\ raised = NoExc
              /\ \A i \in 1..Len(upload_results) : upload_results[i].success
        /\ raised = NoExc =>
              /\ Len(stdout) = Len(upload_results)
              /\ \A i \in 1..Len(stdout) :
                    /\ stdout[i].platform = upload_results[i].platform
                    /\ stdout[i].success = upload_results[i].success
        /\ raised # NoExc =>
              /\ Len(stdout) = 1
              /\ ~stdout[1].success
              /\ stdout[1].error_message = Str(raised)

\* main has exited with status 1 after one upload succeeded and one failed
C1_Witness ==
    /\ pc = "exited"
    /\ exit_code = 1
    /\ Len(upload_results) = 2
    /\ upload_results[1].success
    /\ ~upload_results[2].success

\* C2 (as claimed): upload_video returns exactly one result for each platform
\* named in platforms: as many results as platforms, and every name is the
\* platform field of as many results as it has entries in platforms.
C2_OneResultPerPlatform ==
    pc = "returned" =>
        /\ Len(upload_results) = Len(platforms)
        /\ \A name \in PlatformNames :
              Count(upload_results, name) = Count2(platforms, name)

\* C3 (as claimed): validation passed, one coroutine raised and the other
\* succeeded: one result is successful, one is failed, and the failed one
\* names the platform whose coroutine raised, in either order of platforms.
C3_FailedResultNamesRaiser ==
    \A p \in Uploaders, q \in Uploaders :
        ( /\ pc = "returned"
          /\ Validated /\ validation_result.is_valid
          /\ Len(platforms) = 2 /\ Requested(p) /\ Requested(q)
          /\ gathered[p].isExc
          /\ Succeeded(gathered[q]) )
        =>
        /\ Len(upload_results) = 2
        /\ \E i \in 1..2, j \in 1..2 :
              /\ upload_results[i].success
              /\ upload_results[i].platform = q
              /\ ~upload_results[j].success
              /\ upload_results[j].platform = p

\* C4: the validator reported the video invalid: no upload coroutine exists
\* or has made an attempt, nothing was published, and every returned result
\* is failed with an error_message holding 'validation failed' followed by
\* the validator's message.
C4_InvalidStartsNothing ==
    (Validated /\ ~validation_result.is_valid) =>
        /\ upload_tasks = <<>>
        /\ \A p \in Uploaders :
              /\ tpc[p] = "none"
              /\ attempt_number[p] = 0
              /\ published[p] = 0
        /\ pc \in {"returned", "exited"}
        /\ Len(upload_results) = Len(platforms)
        /\ \A i \in 1..Len(upload_results) :
              /\ ~upload_results[i].success
              /\ Contains(upload_results[i].error_message,
                          <<"validation failed">>)
              /\ Contains(upload_results[i].error_message,
                          <<"validation failed", ": ">>
                            \o validation_result.error_message)

\* upload_video has returned two failed results for an invalid video
C4_Witness ==
    /\ pc = "returned"
    /\ Validated
    /\ ~validation_result.is_valid
    /\ Len(upload_results) = 2
    /\ platforms = <<"youtube", "instagram">>

\* C5 (as claimed): both platforms requested and validation passed: when
\* upload_video returns, both coroutines have run to completion and the
\* result reported under each platform's name is successful exactly when
\* that platform's own coroutine succeeded.
C5_OwnOutcomeOnly ==
    ( /\ pc = "returned"
      /\ Validated /\ validation_result.is_valid
      /\ Requested("youtube") /\ Requested("instagram") )
    =>
    \A p \in Uploaders :
        /\ tpc[p] = "done"
        /\ Count(upload_results, p) = 1
        /\ \A i \in 1..Len(upload_results) :
              upload_results[i].platform = p =>
                 upload_results[i].success = Succeeded(gathered[p])

\* C6 (as claimed): the failed result a platform's wrapper returns carries
\* the message of the exception its upload raised.
C6_ErrorMessageCarriesFailure ==
    \A p \in Uploaders :
        ( /\ tpc[p] = "done"
          /\ ~gathered[p].isExc
          /\ ~gathered[p].success )
        =>
        /\ last_failure[p] # NoExc
        /\ Contains(gathered[p].error_message, last_failure[p].msg)

\* what C7 and its amendment share: at most 3 attempts per platform under the
\* same policy, and nothing is attempted after the attempt that succeeded
DecoratorPolicy ==
    /\ [](\A p \in Uploaders :
            /\ attempt_number[p] <= MaxAttempts
            /\ Succeeded(gathered[p]) => tpc[p] = "done")
    /\ [][\A p \in Uploaders :
            /\ attempt_number'[p] > attempt_number[p] =>
                  /\ ~Succeeded(gathered[p])
                  /\ attempt_number'[p] = attempt_number[p] + 1
            /\ tpc[p] = "done" => UNCHANGED <<tpc[p], gathered[p]>>]_vars

\* C7 (as claimed): DecoratorPolicy, and no other code sends a failed upload
\* request again: within one attempt at most one upload request fails.
C7_RetryOnlyByDecorator ==
    /\ DecoratorPolicy
    /\ [](\A p \in Uploaders : failed_requests[p] <= 1)

\* C7 (amended): DecoratorPolicy; Instagram sends no failed request again;
\* within one YouTube attempt _execute_upload_with_progress sends a failed
\* chunk request again only after HTTP 500, 502, 503 or 504 and at most
\* max_retries times, so at most max_retries + 1 requests fail per attempt.
C7_RetryByDecoratorAndChunkLoop ==
    /\ DecoratorPolicy
    /\ [](/\ failed_requests["instagram"] <= 1
          /\ failed_requests["youtube"] <= max_retries + 1
          /\ retry_count <= max_retries)
    /\ [][retry_count' > retry_count =>
            /\ http_status' \in {500, 502, 503, 504}
            /\ retry_count' = retry_count + 1]_vars

\* the third YouTube attempt has failed after the chunk loop used up its
\* retries
C7_Witness ==
    /\ tpc["youtube"] = "done"
    /\ attempt_number["youtube"] = MaxAttempts
    /\ failed_requests["youtube"] = max_retries + 1
    /\ ~gathered["youtube"].success

\* C19: for a bytes source the temporary file exists during validation and
\* while an upload coroutine is running, and is deleted by the time
\* upload_video returns or raises, on every path; for a path source
\* upload_video deletes nothing.
C19_TempFileLifetime ==
    /\ is_bytes /\ pc \in {"validate", "gather"} => temp_exists
    /\ is_bytes /\ pc \in {"returned", "raised"} => ~temp_exists
    /\ ~is_bytes => ~temp_file_path /\ ~temp_exists

\* C20: within one upload_video call a video is published at most once per
\* platform: after an attempt's upload request has succeeded no later
\* attempt sends the video again, also when a later step of that attempt
\* fails.
C20_PublishedAtMostOnce ==
    \A p \in Uploaders : published[p] <= 1

\* what upload raises when authentication fails
AuthenticationFailure(p) ==
    Exc("Exception", <<IF p = "youtube" THEN "YouTube authentication failed"
                                        ELSE "Instagram authentication failed">>)

\* self.youtube is set / self.authenticated is true
Authenticated(p) == IF p = "youtube" THEN youtube ELSE authenticated

\* the attempt has built the insert request / is about to call clip_upload
Requesting(p) == tpc[p] = (IF p = "youtube" THEN "chunk" ELSE "clip")

\* C21: an upload request is issued to a platform only when the uploader is
\* authenticated with it (self.youtube set, self.authenticated true), and an
\* attempt whose authentication fails raises '<platform> authentication
\* failed' without a request to the upload API.
C21_UploadOnlyAuthenticated ==
    /\ [](\A p \in Uploaders : Requesting(p) => Authenticated(p))
    /\ [][\A p \in Uploaders :
            /\ (published'[p] # published[p]
                   \/ failed_requests'[p] > failed_requests[p])
                  => Authenticated(p) /\ Requesting(p)
            /\ attempt_number'[p] # attempt_number[p] /\ ~Authenticated(p)'
                  => /\ ~Requesting(p)'
                     /\ last_failure'[p] = AuthenticationFailure(p)
                     /\ published'[p] = published[p]
                     /\ failed_requests'[p] = 0]_vars

\* a YouTube attempt has just failed to authenticate, after Instagram
\* authenticated and published
C21_Witness ==
    /\ ~youtube
    /\ attempt_number["youtube"] = 1
    /\ last_failure["youtube"] = AuthenticationFailure("youtube")
    /\ published["youtube"] = 0
    /\ authenticated
    /\ published["instagram"] = 1

\* result r reports what coroutine p left: the UploadResult it returned, or
\* a failed result for the exception that escaped it
Reports(r, p) ==
    IF gathered[p].isExc THEN ~r.success /\ r.error_message = Str(gathered[p].exc)
                         ELSE r = gathered[p] /\ r.platform = p

\* both uploads ran and upload_video has their results
BothUploaded ==
    /\ Requested("youtube") /\ Requested("instagram")
    /\ Validated /\ IsValid(validation_result)
    /\ Len(finished) = 2
    /\ upload_results # <<>>

\* C22: when both platforms are uploaded the first result returned is the
\* YouTube upload's and the second the Instagram upload's, whichever of the
\* two coroutines finished first.
C22_ResultOrder ==
    BothUploaded =>
        /\ Len(upload_results) = 2
        /\ Reports(upload_results[1], "youtube")
        /\ Reports(upload_results[2], "instagram")

\* Instagram finished first and succeeded, YouTube failed afterwards
C22_Witness ==
    /\ BothUploaded
    /\ finished = <<"instagram", "youtube">>
    /\ ~upload_results[1].success
    /\ upload_results[2].success

\* _execute_upload_with_progress is running
InChunkLoop == tpc["youtube"] = "chunk"

\* a call of next_chunk raised in this step
NextChunkRaised == failed_requests'["youtube"] > failed_requests["youtube"]

\* C23: _execute_upload_with_progress calls next_chunk again after an
\* HttpError only if its status is 500, 502, 503 or 504 and fewer than 3
\* retries were made since the call began (progress does not reset the
\* count); the fourth such error and any other error are raised at once; it
\* returns only when next_chunk delivered a response.
C23_ChunkRetry ==
    /\ [](retry_count <= max_retries)
    /\ [][/\ NextChunkRaised => InChunkLoop
          \* the error is retried
          /\ NextChunkRaised /\ InChunkLoop' =>
                /\ http_status' \in {500, 502, 503, 504}
                /\ retry_count < max_retries
                /\ retry_count' = retry_count + 1
          \* the error is raised
          /\ NextChunkRaised /\ ~InChunkLoop' =>
                /\ last_failure'["youtube"] # NoExc
                /\ (last_failure'["youtube"] = HttpErrorRaises(500) =>
                      retry_count = max_retries)
                /\ published' = published
          \* the count changes only by a retry, and not while chunks go
          \* through
          /\ InChunkLoop /\ InChunkLoop' /\ ~NextChunkRaised =>
                retry_count' = retry_count
          \* the call returns with the response only
          /\ InChunkLoop /\ ~InChunkLoop' /\ ~NextChunkRaised =>
                published'["youtube"] = published["youtube"] + 1]_vars

\* the fourth retryable error of the first attempt has been raised
C23_Witness ==
    /\ attempt_number["youtube"] = 1
    /\ failed_requests["youtube"] = max_retries + 1
    /\ last_failure["youtube"] = HttpErrorRaises(500)
    /\ ~InChunkLoop

\* an Instagram upload attempt ends in this step without success
InstagramAttemptFails ==
    /\ tpc["instagram"] \in {"attempt", "clip"}
    /\ tpc'["instagram"] \in {"attempt", "done"}
    /\ \/ tpc'["instagram"] # tpc["instagram"]
       \/ attempt_number'["instagram"] # attempt_number["instagram"]
    /\ ~Succeeded(gathered'["instagram"])

LoginExpired == InstagramRaises("LoginRequired")

\* C24: an Instagram attempt that fails with LoginRequired leaves
\* authenticated false, and the next attempt authenticates before it calls
\* clip_upload; a failure for any other reason does not change the flag.
C24_LoginRequiredResetsFlag ==
    /\ [](/\ last_failure["instagram"] = LoginExpired
          /\ ~Requesting("instagram")
          => ~authenticated)
    /\ [][/\ InstagramAttemptFails =>
                IF last_failure'["instagram"] = LoginExpired
                THEN ~authenticated'
                ELSE authenticated' = authenticated
          /\ authenticated /\ ~authenticated' =>
                /\ InstagramAttemptFails
                /\ last_failure'["instagram"] = LoginExpired
          /\ ~authenticated /\ Requesting("instagram")' =>
                /\ authenticated'
                /\ attempt_number'["instagram"] =
                      attempt_number["instagram"] + 1]_vars

\* the attempt after a LoginRequired failure has authenticated again and is
\* about to call clip_upload
C24_Witness ==
    /\ last_failure["instagram"] = LoginExpired
    /\ attempt_number["instagram"] = 2
    /\ Requesting("instagram")
    /\ authenticated
    /\ published["instagram"] = 0

\* the datetime an ISO 8601 text written by isoformat() denotes
FromIsoFormat(text) ==
    LET fraction == Len(text) >= 9 /\ text[8] = Lit(".")
        at       == IF fraction THEN 10 ELSE 8
        aware    == Len(text) >= at
    IN  DateTime(text[1].s, text[3].n, text[5].n, text[7].n,
                 IF fraction THEN text[9].n ELSE 0,
                 aware,
                 IF aware
                 THEN (IF text[at] = Lit("-") THEN -1 ELSE 1)
                         * (text[at + 1].n * 60 + text[at + 3].n)
                 ELSE 0)

\* C25: with a schedule time the status of the YouTube request has
\* publishAt denoting that time and privacyStatus 'private' whatever the
\* requested privacy; without one it has no publishAt and the requested
\* privacy; the clip_upload call of Instagram carries no schedule time and
\* is the same with and without one.
C25_ScheduleTime ==
    /\ call = "videos.insert" =>
          IF args.schedule_time # NoTime
          THEN /\ returned.privacyStatus = "private"
               /\ "publishAt" \in DOMAIN returned
               /\ FromIsoFormat(returned.publishAt) = args.schedule_time
          ELSE /\ returned.privacyStatus = args.privacy
               /\ "publishAt" \notin DOMAIN returned
    /\ call = "clip_upload" =>
          /\ DOMAIN returned = {"path", "caption", "thumbnail"}
          /\ returned = ClipUploadArguments("video.mp4", <<"caption">>,
                                            NoTime, "cover.jpg")

\* a public video is scheduled for an aware time with microseconds
C25_Witness ==
    /\ call = "videos.insert"
    /\ args.privacy = "public"
    /\ args.schedule_time.aware
    /\ args.schedule_time.utcoffset = 330
    /\ args.schedule_time.microsecond # 0
    /\ returned.privacyStatus = "private"

\* C26: for every description and tag list _format_description returns a
\* text of at most 5000 characters that contains '#Shorts' or '#shorts'.
C26_DescriptionHasShorts ==
    call = "_format_description" =>
        /\ TextLen(returned) <= DescriptionLimit
        /\ In(TagShorts, returned) \/ In(TagShortsLower, returned)

\* the lines of a text that start with '#'
HashtagLines(text) ==
    { TextLines(text)[i].chars : i \in { j \in 1..Len(TextLines(text)) :
          /\ TextLines(text)[j].fill = 0
          /\ TextLines(text)[j].chars # <<>>
          /\ TextLines(text)[j].chars[1] = "#" } }

\* C27: for every caption _format_caption returns a caption of at most 2200
\* characters that contains '#Reels' or '#reels', and the result for a
\* caption longer than 2200 characters has every line of the caption that
\* starts with '#'.
C27_CaptionWithinLimit ==
    call = "_format_caption" =>
        /\ TextLen(returned) <= CaptionLimit
        /\ In(TagReels, returned) \/ In(TagReelsLower, returned)
        /\ TextLen(args) > CaptionLimit =>
              HashtagLines(args) \subseteq HashtagLines(returned)

(***************************************************************************)
(* Properties of ConfigManager.                                            *)
(***************************************************************************)
\* the leaf keys of the defaults, and the keys files and overrides add
ConfigKeys ==
    { EnvMappings[i].config_key : i \in 1..Len(EnvMappings) }
    \cup { <<section, ".", key>> :
             section \in DOMAIN Defaults, key \in {"max_retries", "max_file_size",
                 "default_tags", "chunk_size", "delay_between_uploads",
                 "default_hashtags", "supported_formats", "min_duration",
                 "preferred_aspect_ratio", "min_resolution", "max_resolution",
                 "concurrent_uploads", "retry_delays", "chunk_upload_timeout",
                 "backup_count", "format"} }
    \cup { <<"custom_setting">> }

\* the text the environment gives for a key, Unset if none
EnvText(env, key) ==
    IF \E i \in 1..Len(EnvMappings) : EnvMappings[i].config_key = key
    THEN env[(CHOOSE m \in {EnvMappings[i] : i \in 1..Len(EnvMappings)} :
                 m.config_key = key).env_var]
    ELSE Unset

\* the key holds text: its default is a string, or it has no default
\* (instagram.username, instagram.password)
StringTyped(key) == Get(Defaults, key, VStr(<<>>)).t = "str"

\* the override of a key, in the type of the key
Override(key, text) ==
    IF StringTyped(key) THEN VStr(text) ELSE ConvertEnvValue(text)

FileDefines(file, key) == file.t = "dict" /\ Present(file.d, key)

\* environment over file over default
Effective(env, file, key) ==
    IF EnvText(env, key) # Unset THEN Override(key, EnvText(env, key))
    ELSE IF FileDefines(file, key) THEN Get(file.d, key, VNone)
    ELSE Get(Defaults, key, VNone)

NewlyConstructed == cpc = "constructed" /\ sets = 0

\* C8: every configuration key of a newly constructed ConfigManager holds
\* the environment override when the mapped variable is set, otherwise the
\* value of the configuration file when the file defines the key, otherwise
\* the built-in default.
C8_Precedence ==
    NewlyConstructed =>
        \A key \in ConfigKeys :
            Get(config_data, key, VNone) = Effective(environ, file_config, key)

\* C9: after set(key_path, value), get(key_path) returns value, for every
\* key path and whatever the configuration held before, also for a path
\* through a section that does not exist yet and for a path that extends an
\* existing key.
C9_SetGetRoundTrip ==
    sets > 0 =>
        /\ ~set_raised
        /\ Get(config_data, set_key_path, VNone) = set_value

\* C10: get returns the override of a string-typed key (youtube.category_id,
\* instagram.username, logging.level) as the string the environment gave,
\* also when it consists of digits only, and the override of
\* video.max_file_size as an integer.
C10_OverrideKeepsKeyType ==
    NewlyConstructed =>
        /\ \A key \in { <<"youtube", ".", "category_id">>,
                        <<"instagram", ".", "username">>,
                        <<"logging", ".", "level">> } :
              EnvText(environ, key) # Unset =>
                  Get(config_data, key, VNone) = VStr(EnvText(environ, key))
        /\ LET text == environ["MAX_FILE_SIZE"]
           IN  text # Unset /\ ParsesAsInt(text) =>
                   Get(config_data, <<"video", ".", "max_file_size">>, VNone)
                       = VInt(IntOf(text))

IsTrue(text)  == Lower(text) = <<"t", "r", "u", "e">>
IsFalse(text) == Lower(text) = <<"f", "a", "l", "s", "e">>

\* C11: _convert_env_value maps 'true' and 'false' in any letter case to the
\* booleans, every other string that parses as an integer to that integer,
\* every other string that parses as a float to that float, and returns
\* every remaining string unchanged.
C11_ConversionOrder ==
    call = "_convert_env_value" =>
        /\ IsTrue(args) => returned = VBool(TRUE)
        /\ IsFalse(args) => returned = VBool(FALSE)
        /\ ~IsTrue(args) /\ ~IsFalse(args) /\ ParsesAsInt(args) =>
              returned.t = "int" /\ returned.n = IntOf(args)
        /\ ~IsTrue(args) /\ ~IsFalse(args) /\ ~ParsesAsInt(args)
              /\ ParsesAsFloat(args) =>
              returned.t = "float" /\ returned = FloatOf(args)
        /\ ~IsTrue(args) /\ ~IsFalse(args) /\ ~ParsesAsInt(args)
              /\ ~ParsesAsFloat(args) =>
              returned.t = "str" /\ returned.s = args

\* a spelling of 'true' in mixed case has been converted
C11_Witness ==
    /\ call = "_convert_env_value"
    /\ args = <<"T", "r", "U", "e">>
    /\ returned = VBool(TRUE)

\* C12: get(key_path, default) never raises and returns default for every
\* key path that is not present in the configuration, also when a prefix of
\* the path leads to a scalar or a list.
C12_GetNeverRaises ==
    call = "get" =>
        /\ ~returned.raised
        /\ ~Present(args.data, args.key_path) => returned.value = args.default
        /\ Present(args.data, args.key_path) =>
              returned.value = GetKeys(VDict(args.data), Split(args.key_path),
                                       args.default)

\* get has been called with a path through the string logging.level
C12_Witness ==
    /\ call = "get"
    /\ args.data = Defaults
    /\ args.key_path = <<"logging", ".", "level", ".", "sub">>
    /\ args.default = VStr(<<"fallback">>)
    /\ returned = [raised |-> FALSE, value |-> VStr(<<"fallback">>)]

Absent == [t |-> "absent", s |-> <<>>, n |-> 0, x |-> 0, l |-> <<>>, d |-> EmptyDict]

\* the value a dictionary holds at a path of keys, Absent if none
At(data, path) == GetKeys(VDict(data), path, Absent)

IsLeaf(value) == value # Absent /\ value.t # "dict"
IsSection(value) == value # Absent /\ value.t = "dict"

MergePaths == SeqsUpTo(MergeKeys, 2) \ { <<>> }

ProperPrefixes(path) == { SubSeq(path, 1, n) : n \in 1..(Len(path) - 1) }

\* C13: after _deep_merge(base, update) every leaf path of update holds
\* update's value in base, every leaf of base whose path and whose every
\* prefix is not assigned a value by update keeps its value, and a section
\* present in both is merged key by key.
C13_DeepMergeFrame ==
    call = "_deep_merge" =>
        \A path \in MergePaths :
            /\ IsLeaf(At(args.update, path)) =>
                  At(returned, path) = At(args.update, path)
            /\ /\ IsLeaf(At(args.base, path))
               /\ At(args.update, path) = Absent
               /\ \A prefix \in ProperPrefixes(path) :
                     ~IsLeaf(At(args.update, prefix))
               => At(returned, path) = At(args.base, path)
            /\ IsSection(At(args.base, path)) /\ IsSection(At(args.update, path)) =>
                  /\ IsSection(At(returned, path))
                  /\ DOMAIN At(returned, path).d =
                         DOMAIN At(args.base, path).d
                         \cup DOMAIN At(args.update, path).d

\* a section present in both has been merged: a.a comes from update, a.b is
\* kept from base
C13_Witness ==
    /\ call = "_deep_merge"
    /\ At(args.base, <<"a", "b">>) = VInt(0)
    /\ At(args.update, <<"a", "a">>) = VInt(1)
    /\ At(args.update, <<"a", "b">>) = Absent
    /\ At(returned, <<"a", "a">>) = VInt(1)
    /\ At(returned, <<"a", "b">>) = VInt(0)

\* the configuration of which returned[i] is the string
Shown(i) == WithPassword(args.data, args.passwords[i])

PasswordSet(data) == Present(data, PasswordPath)

\* C14: whenever instagram.password is set, str(config) shows '***masked***'
\* in its place and not the password, so two configurations that differ
\* only in instagram.password have the same string representation.
C14_PasswordMasked ==
    call = "__str__" =>
        /\ \A i \in 1..2 :
              PasswordSet(Shown(i)) =>
                  /\ ~returned[i].raised
                  /\ Contains(returned[i].text,
                              <<"\"", "password", "\"", ": ">> \o Dumps(Masked, 0))
                  /\ ~Contains(returned[i].text,
                               Dumps(At(Shown(i), Split(PasswordPath)), 0))
        /\ PasswordSet(Shown(1)) /\ PasswordSet(Shown(2)) =>
              returned[1] = returned[2]

\* two configurations with different passwords have been shown
C14_Witness ==
    /\ call = "__str__"
    /\ args.data = Defaults
    /\ args.passwords = << VStr(<<"secret_password">>), VStr(<<"hunter2">>) >>
    /\ PasswordSet(Shown(1)) /\ PasswordSet(Shown(2))
    /\ Shown(1) # Shown(2)
    /\ returned[1] = returned[2]
    /\ Contains(returned[1].text, <<"***masked***">>)

(***************************************************************************)
(* Properties of VideoValidator.                                           *)
(***************************************************************************)
\* the file checks in the order of the claim, and whether the file fails
FileChecks == <<"exists", "extension", "size", "empty">>

ExtensionListed(name) ==
    \E ext \in { <<".", "m", "p", "4">>, <<".", "m", "o", "v">>,
                 <<".", "a", "v", "i">> } :
        Lower(Suffix(name)) = Lower(ext)

Fails(check) ==
    CASE check = "exists"    -> ~args.exists
      [] check = "extension" -> ~ExtensionListed(args.video_path)
      [] check = "size"      -> args.file_size > 500 * 1024 * 1024
      [] check = "empty"     -> args.file_size = 0

MessageOf(check) ==
    CASE check = "exists"    -> "Video file not found: "
      [] check = "extension" -> "Unsupported format: "
      [] check = "size"      -> "File too large: "
      [] check = "empty"     -> "Video file is empty"

\* C15: validate_video applies its file checks in the order missing file,
\* extension (compared case-insensitively), size above 500 MB, size zero,
\* and reports only the first one that fails; metadata is probed only for a
\* file that passes all four.
C15_FirstFailingCheck ==
    /\ call \in {"exists", "extension", "size", "empty", "metadata", "done"} =>
          \* the checks are made in the fixed order, each at most once
          /\ Len(returned.checks) <= 5
          /\ \A i \in 1..Len(returned.checks) :
                returned.checks[i] = (FileChecks \o <<"metadata">>)[i]
          /\ returned.probed =>
                \A i \in 1..4 : ~Fails(FileChecks[i])
    /\ call = "done" =>
          \A i \in 1..4 :
              Fails(FileChecks[i]) /\ (\A j \in 1..(i - 1) : ~Fails(FileChecks[j])) =>
                  /\ ~returned.validation.is_valid
                  /\ returned.validation.error_message[1] = MessageOf(FileChecks[i])
                  /\ Len(returned.checks) = i
                  /\ ~returned.probed
    /\ call = "done" /\ (\A i \in 1..4 : ~Fails(FileChecks[i])) =>
          /\ returned.probed
          /\ returned.checks = FileChecks \o <<"metadata">>

\* an existing file of 0 bytes with an unsupported extension has been
\* rejected for its extension
C15_Witness ==
    /\ call = "done"
    /\ args.exists
    /\ args.video_path = <<"a", ".", "m", "k", "v">>
    /\ args.file_size = 0
    /\ returned.validation.error_message[1] = "Unsupported format: "
    /\ returned.checks = <<"exists", "extension">>

\* the errors that begin with the text `head`
ErrorsWith(errors, head) == { i \in 1..Len(errors) : errors[i][1] = head }

Between(low, a, high) == a.n * low.d >= low.n * a.d /\ a.n * high.d <= high.n * a.d

DurationOk(m) == Between(Rat(1, 1), m.duration, Rat(90, 1))
Sized(m) == m.width > 0 /\ m.height > 0
ResolutionOk(m) ==
    /\ 720 <= m.width /\ m.width <= 1080
    /\ 1280 <= m.height /\ m.height <= 1920
\* 9/16 - 0.1 = 0.4625 and 9/16 + 0.1 = 0.6625
AspectOk(m) ==
    \/ m.aspect_ratio.n = 0
    \/ /\ m.aspect_ratio.n <= m.aspect_ratio.d
       /\ Between(Rat(4625, 10000), m.aspect_ratio, Rat(6625, 10000))

\* C16: _validate_metadata returns no error exactly when the duration is
\* between 1.0 and 90 and, for positive width and height, the resolution is
\* between 720x1280 and 1080x1920 and the aspect ratio is 0 or at most 1.0
\* and within 0.1 of 9/16; every violated threshold adds its own message,
\* and resolution and aspect ratio are not checked when a side is 0.
C16_MetadataThresholds ==
    call = "_validate_metadata" =>
        LET Has(head) == ErrorsWith(returned, head) # {}
        IN  /\ returned = <<>> <=>
                  /\ DurationOk(args)
                  /\ Sized(args) => ResolutionOk(args) /\ AspectOk(args)
            /\ Has("Video too short: ") <=> args.duration.n < args.duration.d
            /\ Has("Video too long: ") <=> args.duration.n > 90 * args.duration.d
            /\ Has("Resolution too low: ") <=>
                  Sized(args) /\ (args.width < 720 \/ args.height < 1280)
            /\ Has("Resolution too high: ") <=>
                  Sized(args) /\ (args.width > 1080 \/ args.height > 1920)
            /\ Has("Video is landscape (") <=>
                  Sized(args) /\ args.aspect_ratio.n > args.aspect_ratio.d
            /\ Has("Aspect ratio ") <=>
                  /\ Sized(args)
                  /\ args.aspect_ratio.n <= args.aspect_ratio.d
                  /\ ~AspectOk(args)
            /\ ~Sized(args) =>
                  \A i \in 1..Len(returned) :
                      returned[i][1] \in {"Video too short: ", "Video too long: "}

\* a video that is too long, too large and landscape got three messages
C16_Witness ==
    /\ call = "_validate_metadata"
    /\ args = [duration |-> Rat(100, 1), width |-> 1920, height |-> 2160,
               aspect_ratio |-> Rat(16, 9)]
    /\ Len(returned) = 3

\* a field that holds a number greater than 0
Positive(a) == a # NoneRat /\ a.n > 0

\* C17: a result is Shorts compatible exactly when it is valid, its duration
\* is positive and at most 60 and its aspect ratio is positive and at most
\* 1.0, and Reels compatible under the same conditions with 90; an invalid
\* result is compatible with neither, and Shorts compatible implies Reels
\* compatible.
C17_Compatibility ==
    call = "compatible" =>
        LET Fits(seconds) ==
                /\ args.is_valid
                /\ Positive(args.duration)
                /\ args.duration.n <= seconds * args.duration.d
                /\ Positive(args.aspect_ratio)
                /\ args.aspect_ratio.n <= args.aspect_ratio.d
        IN  /\ returned.youtube_shorts_compatible.truth <=> Fits(60)
            /\ returned.instagram_reels_compatible.truth <=> Fits(90)
            /\ ~args.is_valid =>
                  /\ ~returned.youtube_shorts_compatible.truth
                  /\ ~returned.instagram_reels_compatible.truth
            /\ returned.youtube_shorts_compatible.truth =>
                  returned.instagram_reels_compatible.truth

\* a valid vertical video of 90 seconds is Reels but not Shorts compatible
C17_Witness ==
    /\ call = "compatible"
    /\ args = [is_valid |-> TRUE, duration |-> Rat(90, 1),
               aspect_ratio |-> Rat(9, 16)]
    /\ ~returned.youtube_shorts_compatible.truth
    /\ returned.instagram_reels_compatible.truth

(***************************************************************************)
(* Properties of split_competition.                                        *)
(***************************************************************************)
\* the white-space separated tokens of a text
RECURSIVE Tokens(_)
Tokens(text) ==
    LET rest == StripLeft(text)
        stop == IF \E i \in 1..Len(rest) : IsSpace(rest[i])
                THEN CHOOSE i \in 1..Len(rest) :
                        IsSpace(rest[i]) /\ \A j \in 1..(i - 1) : ~IsSpace(rest[j])
                ELSE Len(rest) + 1
    IN  IF rest = <<>> THEN <<>>
        ELSE << SubSeq(rest, 1, stop - 1) >> \o Tokens(SubSeq(rest, stop, Len(rest)))

TwoDigitsSlashTwoDigits(token) ==
    /\ Len(token) = 5
    /\ \A i \in {1, 2, 4, 5} : token[i] \in {"0", "1", "2", "3", "4", "5", "6", "7", "8", "9"}
    /\ token[3] = "/"

\* C18: split_competition returns (league, season) where season is the last
\* white-space separated token of the trimmed input when that token is two
\* digits, a slash and two digits and a token precedes it, else the empty
\* string; league is the trimmed input without that token; empty, None and
\* non-string input give ('', '').
C18_SplitCompetition ==
    call = "split_competition" =>
        IF args.kind # "str" \/ args.text = <<>>
        THEN returned = << <<>>, <<>> >>
        ELSE LET trimmed == Strip(args.text)
                 tokens == Tokens(trimmed)
                 last == tokens[Len(tokens)]
             IN  IF Len(tokens) >= 2 /\ TwoDigitsSlashTwoDigits(last)
                 THEN /\ returned[2] = last
                      /\ returned[1] = Strip(SubSeq(trimmed, 1, Len(trimmed) - 5))
                 ELSE /\ returned[2] = <<>>
                      /\ returned[1] = trimmed

\* a league and a season have been split
C18_Witness ==
    /\ call = "split_competition"
    /\ args.text = <<"L", " ", "2", "2", "/", "2", "2">>
    /\ returned = << <<"L">>, <<"2", "2", "/", "2", "2">> >>

(***************************************************************************)
(* Properties of validate_video without ffprobe and OpenCV.                *)
(***************************************************************************)
NoProbe == ~args.ffprobe_available /\ ~args.opencv_available

Validation == returned.validation

\* C29 (as claimed): without ffprobe and OpenCV every existing, supported,
\* non-empty file is reported invalid with a 'Video too short' error, and
\* upload_video starts no upload.
C29_NoProbeTooShort ==
    /\ call \in {"done", "upload_video"} /\ NoProbe =>
          (args.exists /\ ExtensionListed(args.video_path) /\ args.file_size > 0
             => /\ ~Validation.is_valid
                /\ Validation.error_message[1] = "Video too short: ")
    /\ call = "upload_video" /\ NoProbe => returned.upload_tasks = <<>>

\* C29 (amended): without ffprobe and OpenCV every existing, supported,
\* non-empty file of at most 500 MB is reported invalid with a 'Video too
\* short' error and a larger one with 'File too large'; no file is valid,
\* and upload_video starts no upload.
C29_NoProbeNothingValid ==
    /\ call \in {"done", "upload_video"} /\ NoProbe =>
          /\ ~Validation.is_valid
          /\ args.exists /\ ExtensionListed(args.video_path) /\ args.file_size > 0 =>
                Validation.error_message[1] =
                    IF args.file_size > 500 * 1024 * 1024
                    THEN "File too large: " ELSE "Video too short: "
    /\ call = "upload_video" /\ NoProbe => returned.upload_tasks = <<>>

\* upload_video has ended without an upload for a good file that could not
\* be probed
C29_Witness ==
    /\ call = "upload_video"
    /\ NoProbe
    /\ args.exists
    /\ args.video_path = <<"a", ".", "M", "P", "4">>
    /\ args.file_size = 1
    /\ returned.probed
    /\ Validation.error_message[1] = "Video too short: "
    /\ returned.upload_tasks = <<>>

(***************************************************************************)
(* Properties of two runs on the same file.                                *)
(***************************************************************************)
\* the video.* value of a run's configuration, where the run has one
VideoSetting(run, key) ==
    LET loaded == LoadEnvironment(LoadConfigFile(Defaults, run.file_config),
                                  run.environ)
    IN  IF loaded.raised THEN VNone
        ELSE Get(loaded.data, <<"video", ".", key>>, VNone)

\* C28: two upload_video runs on the same file obtain the same validation
\* result, whatever platforms they request and whatever video.* values their
\* configurations hold (from the file or from MAX_FILE_SIZE,
\* MAX_DURATION_YOUTUBE, MAX_DURATION_INSTAGRAM).
C28_ValidationIgnoresConfig ==
    returned[1].state = "validated" /\ returned[2].state = "validated" =>
        returned[1].validation = returned[2].validation

\* a file of 1001 bytes is valid in a run whose video.max_file_size is 1
\* and in a run with the default limit and other platforms
C28_Witness ==
    /\ returned[1].state = "validated" /\ returned[2].state = "validated"
    /\ args.runs[1].platforms # args.runs[2].platforms
    /\ VideoSetting(args.runs[1], "max_file_size") = VInt(1)
    /\ VideoSetting(args.runs[2], "max_file_size") = VInt(MAX_FILE_SIZE)
    /\ VideoSetting(args.runs[1], "max_duration_youtube") = VInt(5)
    /\ args.video.file_size = 1001
    /\ returned[1].validation.is_valid

====
